---- MODULE Spec2Model ----
(***************************************************************************)
(* Model of the extraction-and-chunking core of claude-rag-pipeline        *)
(* (src/src/document_processor.py).                                        *)
(*                                                                         *)
(* Texts are kept run-length encoded: a text is a sequence of runs         *)
(* [c |-> character, n |-> repetitions], canonical when no run is empty    *)
(* and adjacent runs carry different characters.  The encoding is exact    *)
(* (every operator below computes what the Python code computes on the     *)
(* decoded string) and lets a 250-character text be one or two runs.       *)
(***************************************************************************)
EXTENDS Integers, Sequences, FiniteSets, TLC

(***************************************************************************)
(* Characters.  Multi-letter names stand for one character each.           *)
(***************************************************************************)
Digits == {"0", "1", "2", "3", "4", "5", "6", "7", "8", "9"}
UpperCase ==
    << "A", "B", "C", "D", "E", "F", "G", "H", "I", "J", "K", "L", "M",
       "N", "O", "P", "Q", "R", "S", "T", "U", "V", "W", "X", "Y", "Z" >>
LowerCase ==
    << "a", "b", "c", "d", "e", "f", "g", "h", "i", "j", "k", "l", "m",
       "n", "o", "p", "q", "r", "s", "t", "u", "v", "w", "x", "y", "z" >>
Letters == {UpperCase[i] : i \in DOMAIN UpperCase}
               \cup {LowerCase[i] : i \in DOMAIN LowerCase}
\* the characters of \w that texts of this model are written with
WordChars == Letters \cup {"_"} \cup Digits
Whitespace == {" ", "NL", "TAB", "NBSP"}
\* the characters line 379 keeps besides \w and \s
KeptPunctuation ==
    {".", ",", "!", "?", ";", ":", "-", "(", ")", "|", "$", "@", "#", "%",
     "&", "*", "+", "=", "/", "BACKSLASH"}
AllowedChars == WordChars \cup Whitespace \cup KeptPunctuation

EmptyText == << >>

Run(c, n) == [c |-> c, n |-> n]

RECURSIVE Canon(_)
\* canonical form of a run sequence: the same string, no empty run, adjacent
\* runs of one character joined
Canon(t) ==
    IF t = << >> THEN << >>
    ELSE LET h == Head(t)
             r == Canon(Tail(t))
         IN  IF h.n = 0 THEN r
             ELSE IF r # << >> /\ r[1].c = h.c
                  THEN << Run(h.c, h.n + r[1].n) >> \o Tail(r)
                  ELSE << h >> \o r

RECURSIVE len(_)
\* Python len(text)
len(t) == IF t = << >> THEN 0 ELSE Head(t).n + len(Tail(t))

RECURSIVE lstrip(_)
lstrip(t) ==
    IF t # << >> /\ Head(t).c \in Whitespace THEN lstrip(Tail(t)) ELSE t

RECURSIVE rstrip(_)
rstrip(t) ==
    IF t # << >> /\ t[Len(t)].c \in Whitespace
    THEN rstrip(SubSeq(t, 1, Len(t) - 1))
    ELSE t

\* Python text.strip()
strip(t) == rstrip(lstrip(t))

RECURSIVE SubWhitespace(_)
\* re.sub(r'\s+', ' ', text)
SubWhitespace(t) ==
    IF t = << >> THEN << >>
    ELSE IF Head(t).c \in Whitespace
         THEN << Run(" ", 1) >> \o SubWhitespace(lstrip(Tail(t)))
         ELSE << Head(t) >> \o SubWhitespace(Tail(t))

\* re.sub(r'[^\w\s...]', '', text)
RemoveDisallowed(t) == Canon(SelectSeq(t, LAMBDA r : r.c \in AllowedChars))

\* the replacements dictionary: the three dashes map to the hyphen, the other
\* keys (apostrophe, quote, bullet, space) map to themselves
Replacement(c) ==
    IF c \in {"MINUS", "EN_DASH", "EM_DASH"} THEN "-" ELSE c

ApplyReplacements(t) ==
    Canon([i \in DOMAIN t |-> Run(Replacement(t[i].c), t[i].n)])

\* index of the last newline run of the whitespace block that starts at run i
RECURSIVE LastNewlineInBlock(_, _, _)
LastNewlineInBlock(t, i, best) ==
    IF i > Len(t) \/ t[i].c \notin Whitespace THEN best
    ELSE LastNewlineInBlock(t, i + 1, IF t[i].c = "NL" THEN i ELSE best)

RECURSIVE SubBlankLines(_)
\* re.sub(r'\n\s*\n', '\n\n', text): from the first newline of a whitespace
\* block to its last newline, when these are two different characters
SubBlankLines(t) ==
    IF t = << >> THEN << >>
    ELSE IF Head(t).c # "NL" THEN << Head(t) >> \o SubBlankLines(Tail(t))
    ELSE LET k == LastNewlineInBlock(t, 1, 1)
         IN  IF k = 1 /\ Head(t).n = 1
             THEN << Head(t) >> \o SubBlankLines(Tail(t))
             ELSE << Run("NL", 2) >> \o SubBlankLines(SubSeq(t, k + 1, Len(t)))

\* re.sub(r' {3,}', '   ', text)
CapSpaces(t) ==
    [i \in DOMAIN t |->
        IF t[i].c = " " /\ t[i].n >= 3 THEN Run(" ", 3) ELSE t[i]]

\* DocumentProcessor._clean_text
_clean_text(text) ==
    CapSpaces(Canon(SubBlankLines(
        ApplyReplacements(RemoveDisallowed(SubWhitespace(strip(text)))))))

(***************************************************************************)
(* Filenames are sequences of one-character strings.                       *)
(***************************************************************************)
lowerChar(c) ==
    IF \E i \in DOMAIN UpperCase : UpperCase[i] = c
    THEN LowerCase[CHOOSE i \in DOMAIN UpperCase : UpperCase[i] = c]
    ELSE c

\* Python str.lower()
lower(s) == [i \in DOMAIN s |-> lowerChar(s[i])]

\* Python `needle in s`
Contains(s, needle) ==
    \E i \in 1 .. (Len(s) - Len(needle) + 1) :
        SubSeq(s, i, i + Len(needle) - 1) = needle

\* the last indicator spelled with an underscore
utility_indicatorsUnderscore ==
    << << "p", "g", "e" >>,
       << "p", "g", "&", "e" >>,
       << "p", "a", "c", "i", "f", "i", "c", " ", "g", "a", "s" >>,
       << "e", "l", "e", "c", "t", "r", "i", "c" >>,
       << "b", "i", "l", "l" >>,
       << "u", "t", "i", "l", "i", "t", "y" >>,
       << "e", "n", "e", "r", "g", "y" >>,
       << "g", "a", "s" >>,
       << "e", "d", "i", "s", "o", "n" >>,
       << "s", "d", "g", "e" >>,
       << "p", "e", "c", "o" >>,
       << "c", "o", "n", "_", "e", "d" >> >>

utility_indicators ==
    << << "p", "g", "e" >>,
       << "p", "g", "&", "e" >>,
       << "p", "a", "c", "i", "f", "i", "c", " ", "g", "a", "s" >>,
       << "e", "l", "e", "c", "t", "r", "i", "c" >>,
       << "b", "i", "l", "l" >>,
       << "u", "t", "i", "l", "i", "t", "y" >>,
       << "e", "n", "e", "r", "g", "y" >>,
       << "g", "a", "s" >>,
       << "e", "d", "i", "s", "o", "n" >>,
       << "s", "d", "g", "e" >>,
       << "p", "e", "c", "o" >>,
       << "c", "o", "n", " ", "e", "d" >> >>

\* the match made on the filename as given
_is_utility_billCaseSensitive(filename) ==
    \E k \in DOMAIN utility_indicators :
        Contains(filename, utility_indicators[k])

\* DocumentProcessor._is_utility_bill
_is_utility_bill(filename) ==
    \E k \in DOMAIN utility_indicators :
        Contains(lower(filename), utility_indicators[k])

PgeMay2025Pdf ==
    << "p", "g", "e", "-", "m", "a", "y", "-", "2", "0", "2", "5",
       ".", "p", "d", "f" >>
NormalDocumentPdf ==
    << "n", "o", "r", "m", "a", "l", "-", "d", "o", "c", "u", "m", "e", "n",
       "t", ".", "p", "d", "f" >>
WaterBillPdf ==
    << "W", "a", "t", "e", "r", "-", "B", "I", "L", "L", ".", "p", "d", "f" >>

PgeBillTxt ==
    << "p", "g", "e", "-", "b", "i", "l", "l", ".", "t", "x", "t" >>

\* the files whose loaded documents are chunked: a name with "pge" and "bill",
\* a name with neither, a name with "bill" only
DocFiles == {PgeBillTxt, NormalDocumentPdf, WaterBillPdf}

ConEdStatementPdf ==
    << "C", "o", "n", "_", "E", "d", "_", "S", "t", "a", "t", "e", "m", "e",
       "n", "t", ".", "p", "d", "f" >>

\* the PDF files the orchestrator is run on
PdfFiles == {PgeMay2025Pdf, NormalDocumentPdf, WaterBillPdf}

(***************************************************************************)
(* Extractor outcomes.  The three Format Extractors are calls into the     *)
(* PDF and OCR libraries; what they return for a file is an input of the   *)
(* orchestrator: either an exception or a text.                            *)
(***************************************************************************)
MaxJunk == 1
PadLen == 2
BodyLens == {0, 10, 50, 99, 200, 250}

\* leading blank lines, a body of word characters, characters the normalizer
\* removes, trailing spaces
MakeText(pad, body, junk) ==
    Canon(<< Run("NL", pad), Run("a", body), Run("EM_DASH", junk),
             Run(" ", pad) >>)

RawTexts ==
    {MakeText(pad, body, junk) :
        pad \in {0, PadLen}, body \in BodyLens, junk \in 0 .. MaxJunk}

Raised == [status |-> "raised", text |-> EmptyText]
NotRun == [status |-> "not_run", text |-> EmptyText]
Returned(t) == [status |-> "ok", text |-> t]

ExtractorOutcomes == {Raised} \cup {Returned(t) : t \in RawTexts}

Strategies == {"ocr", "table", "native"}

(***************************************************************************)
(* State.                                                                  *)
(***************************************************************************)
VARIABLES
    use_ocr,    \* DocumentProcessor.use_ocr
    file,       \* file_path.name of the running _extract_pdf call
    pc,         \* position of the call in _extract_pdf
    text,       \* the local `text`: the best candidate so far
    calls,      \* history: the extractors invoked by the call, in order
    out,        \* history: what each extractor did when last invoked
    raised,     \* history: a step inside the try block raised
    outcome,    \* how the call ended: "running", "returned" or "threw"
    result      \* the value the call returned

VARIABLES
    chunk_size,     \* DocumentProcessor.chunk_size
    chunk_overlap,  \* DocumentProcessor.chunk_overlap
    documents,      \* the argument of the running chunk_documents call
    chunks,         \* its local `chunks`, returned at the end
    cpc,            \* position of the call in chunk_documents / _split_text
    di,             \* index in `documents` of the document of the for loop
    tokens,         \* _split_text: the local `tokens`
    start,          \* _split_text: the local `start`
    doc_chunks,     \* the local `doc_chunks` (`chunks` inside _split_text)
    windows         \* history: per document, the token windows [start, end)
                    \* of its regular chunks, in the order they were cut

VARIABLES
    ppc,            \* position of a single call of a pure function
    arg,            \* its argument
    ret,            \* the value the call returned
    ret2,           \* the value a second call, made on `ret`, returned
    idx             \* the index the loop of the call has reached

evars == << use_ocr, file, pc, text, calls, out, raised, outcome, result >>
cvars == << chunk_size, chunk_overlap, documents, chunks, cpc, di, tokens,
            start, doc_chunks, windows >>
pvars == << ppc, arg, ret, ret2, idx >>
vars == << evars, cvars, pvars >>

(***************************************************************************)
(* DocumentProcessor._extract_pdf, the Extraction Orchestrator.            *)
(***************************************************************************)
OcrMinChars == 50
TableMinChars == 200
PoorResultChars == 100

\* the acceptance test taken on the normalized text instead of the raw one
OcrAcceptedAfterCleaning(ocr_text) == len(_clean_text(ocr_text)) > OcrMinChars

\* line 73: len(ocr_text.strip()) > 50
OcrAccepted(ocr_text) == len(strip(ocr_text)) > OcrMinChars

\* the acceptance test taken on the normalized text instead of the raw one
TableAcceptedAfterCleaning(t) == len(_clean_text(t)) > TableMinChars

\* line 90: len(text.strip()) > 200
TableAccepted(t) == len(strip(t)) > TableMinChars

\* the native text preferred on a tie as well
PreferNativeOnTie(pymupdf_text, t) == len(strip(pymupdf_text)) >= len(strip(t))

\* line 98: len(pymupdf_text.strip()) > len(text.strip())
PreferNative(pymupdf_text, t) == len(strip(pymupdf_text)) > len(strip(t))

\* the last resort without the test that the file is not a bill
LastResortOcrAlsoForBills(t, ocrEnabled, name) ==
    len(strip(t)) < PoorResultChars /\ ocrEnabled

\* line 103
LastResortOcr(t, ocrEnabled, name) ==
    len(strip(t)) < PoorResultChars /\ ocrEnabled /\ ~_is_utility_bill(name)

\* line 106: len(ocr_text.strip()) > len(text.strip())
PreferOcr(ocr_text, t) == len(strip(ocr_text)) > len(strip(t))

\* the winning text returned as extracted
ReturnValueRaw(t) == t

\* lines 77, 92, 110: the value of `return self._clean_text(...)`
ReturnValue(t) == _clean_text(t)

\* no handler: the exception leaves the call
OnExceptionEscapes == [outcome |-> "threw", value |-> EmptyText]

\* lines 112-114: how the call ends when a step inside the try block raises
OnException == [outcome |-> "returned", value |-> EmptyText]

Fail ==
    /\ pc' = "done"
    /\ raised' = TRUE
    /\ outcome' = OnException.outcome
    /\ result' = OnException.value

\* `return self._clean_text(t)`; the normalizer is a step inside the try block
\* and may raise like any other
ReturnCleaned(t) ==
    \E cleanRaises \in BOOLEAN :
        IF cleanRaises THEN Fail
        ELSE /\ pc' = "done"
             /\ outcome' = "returned"
             /\ result' = ReturnValue(t)
             /\ UNCHANGED raised

Invoke(s, o) ==
    /\ calls' = Append(calls, s)
    /\ out' = [out EXCEPT ![s] = o]

Continue(next) ==
    /\ pc' = next
    /\ UNCHANGED << raised, outcome, result >>

\* lines 66-83: a utility bill goes to OCR first
Step1 ==
    /\ pc = "step1"
    /\ IF _is_utility_bill(file) /\ use_ocr
       THEN \E o \in ExtractorOutcomes :
               /\ Invoke("ocr", o)
               /\ IF o.status = "raised" THEN Fail
                  ELSE IF OcrAccepted(o.text) THEN ReturnCleaned(o.text)
                  ELSE Continue("step2")
       ELSE /\ Continue("step2")
            /\ UNCHANGED << calls, out >>
    /\ UNCHANGED << use_ocr, file, text, cvars, pvars >>

\* lines 85-92: pdfplumber, the Table-Aware Extractor
Step2 ==
    /\ pc = "step2"
    /\ \E o \in ExtractorOutcomes :
          /\ Invoke("table", o)
          /\ IF o.status = "raised" THEN Fail /\ UNCHANGED text
             ELSE /\ text' = o.text
                  /\ IF TableAccepted(o.text) THEN ReturnCleaned(o.text)
                     ELSE Continue("step3")
    /\ UNCHANGED << use_ocr, file, cvars, pvars >>

\* lines 94-100: PyMuPDF, the Native Extractor
Step3 ==
    /\ pc = "step3"
    /\ \E o \in ExtractorOutcomes :
          /\ Invoke("native", o)
          /\ IF o.status = "raised" THEN Fail /\ UNCHANGED text
             ELSE /\ text' = IF PreferNative(o.text, text) THEN o.text ELSE text
                  /\ Continue("step4")
    /\ UNCHANGED << use_ocr, file, cvars, pvars >>

\* lines 102-108: OCR as the last resort
Step4 ==
    /\ pc = "step4"
    /\ IF LastResortOcr(text, use_ocr, file)
       THEN \E o \in ExtractorOutcomes :
               /\ Invoke("ocr", o)
               /\ IF o.status = "raised" THEN Fail /\ UNCHANGED text
                  ELSE /\ text' = IF PreferOcr(o.text, text) THEN o.text ELSE text
                       /\ Continue("step5")
       ELSE /\ Continue("step5")
            /\ UNCHANGED << calls, out, text >>
    /\ UNCHANGED << use_ocr, file, cvars, pvars >>

\* line 110
Step5 ==
    /\ pc = "step5"
    /\ ReturnCleaned(text)
    /\ UNCHANGED << use_ocr, file, text, calls, out, cvars, pvars >>

\* no call of a pure function is being watched
PureIdle ==
    /\ ppc = "idle"
    /\ arg = << >>
    /\ ret = << >>
    /\ ret2 = << >>
    /\ idx = 0

\* no chunk_documents call is running
ChunkerIdle ==
    /\ chunk_size = 500
    /\ chunk_overlap = 50
    /\ documents = << >>
    /\ chunks = << >>
    /\ cpc = "idle"
    /\ di = 0
    /\ tokens = << >>
    /\ start = 0
    /\ doc_chunks = << >>
    /\ windows = << >>

\* an _extract_pdf call on some PDF file has just entered its try block
Init ==
    /\ use_ocr \in BOOLEAN
    /\ file \in PdfFiles
    /\ pc = "step1"
    /\ text = EmptyText
    /\ calls = << >>
    /\ out = [s \in Strategies |-> NotRun]
    /\ raised = FALSE
    /\ outcome = "running"
    /\ result = EmptyText
    /\ ChunkerIdle
    /\ PureIdle

Next == Step1 \/ Step2 \/ Step3 \/ Step4 \/ Step5

Spec == Init /\ [][Next]_vars

(***************************************************************************)
(* Properties of the Extraction Orchestrator.                              *)
(***************************************************************************)
TrimLen(t) == len(strip(t))
Called(s) == \E i \in DOMAIN calls : calls[i] = s
LastCall == IF calls = << >> THEN "none" ELSE calls[Len(calls)]
IsBill == _is_utility_bill(file)
\* step 1 runs the OCR Extractor
Step1Runs == IsBill /\ use_ocr
\* the call ended inside step 1 with the OCR text as the winner
Step1Accepted ==
    Step1Runs /\ pc = "done" /\ calls = << "ocr" >> /\ out.ocr.status = "ok"
\* the better of the Table-Aware and the Native text, the Table-Aware one on a tie
Best23 ==
    IF TrimLen(out.native.text) > TrimLen(out.table.text)
    THEN out.native.text
    ELSE out.table.text
\* step 4 ran the OCR Extractor
LastResortRan ==
    /\ Len(calls) >= 2
    /\ calls[Len(calls)] = "ocr"
    /\ calls[Len(calls) - 1] = "native"

\* C1: the orchestrator never throws: whatever the extractors and the
\* normalizer do, the call ends by returning a text, and the text is empty
\* when a step inside the call raised.
C1_NeverThrows ==
    /\ outcome # "threw"
    /\ pc = "done" => outcome = "returned"
    /\ (pc = "done" /\ raised) => result = EmptyText

\* the normalizer raised on the text of an extractor that had returned
C1_Witness ==
    /\ pc = "done" /\ raised /\ outcome = "returned"
    /\ LastCall = "table" /\ out.table.status = "ok"
    /\ TrimLen(out.table.text) > TableMinChars

\* C2 as stated: for a bill with OCR enabled the OCR Extractor runs first and
\* its text is accepted exactly when the normalized OCR text exceeds 50
\* characters; on acceptance the normalized OCR text is returned and no other
\* extractor is invoked.
C2_AcceptedOnNormalizedLength ==
    (Step1Runs /\ pc # "step1") =>
        /\ calls[1] = "ocr"
        /\ out.ocr.status = "ok" =>
              (Step1Accepted <=> len(_clean_text(out.ocr.text)) > OcrMinChars)
        /\ (Step1Accepted /\ ~raised) =>
              /\ result = _clean_text(out.ocr.text)
              /\ ~Called("table") /\ ~Called("native")

\* C2 amended: for a bill with OCR enabled the OCR Extractor runs first and its
\* text is accepted exactly when the raw OCR text, trimmed of surrounding
\* whitespace and not yet normalized, exceeds 50 characters; on acceptance the
\* normalized OCR text is returned and no other extractor is invoked.
C2_AcceptedOnTrimmedLength ==
    (Step1Runs /\ pc # "step1") =>
        /\ calls[1] = "ocr"
        /\ out.ocr.status = "ok" =>
              (Step1Accepted <=> TrimLen(out.ocr.text) > OcrMinChars)
        /\ (Step1Accepted /\ ~raised) =>
              /\ result = _clean_text(out.ocr.text)
              /\ ~Called("table") /\ ~Called("native")

\* an OCR text accepted although its normalized form has 50 characters or fewer
C2_Witness ==
    /\ Step1Accepted /\ ~raised
    /\ TrimLen(out.ocr.text) > OcrMinChars
    /\ len(result) <= OcrMinChars

\* C3: when step 1 did not accept an OCR text (not a bill, OCR disabled, or
\* the OCR text too short) the Table-Aware Extractor is the next extractor
\* run, and when its output (trimmed) exceeds 200 characters the call ends
\* there: the normalized Table-Aware text is returned, the Native Extractor
\* is not invoked and no OCR follows.
C3_TableAwareNext ==
    /\ (pc \notin {"step1", "step2"} /\ ~Step1Runs) =>
          (calls # << >> /\ calls[1] = "table")
    /\ (pc \notin {"step1", "step2"} /\ Step1Runs /\ out.ocr.status = "ok"
            /\ TrimLen(out.ocr.text) <= OcrMinChars) =>
          (Len(calls) >= 2 /\ calls[1] = "ocr" /\ calls[2] = "table")
    /\ (out.table.status = "ok" /\ TrimLen(out.table.text) > TableMinChars) =>
          /\ pc = "done"
          /\ LastCall = "table"
          /\ ~Called("native")
          /\ ~raised => result = _clean_text(out.table.text)

\* the scenario of the specification: a Table-Aware text of 250 characters is
\* returned, here for a bill whose OCR text was too short
C3_Witness ==
    /\ pc = "done" /\ ~raised
    /\ calls = << "ocr", "table" >>
    /\ TrimLen(out.table.text) = 250
    /\ result = _clean_text(out.table.text)

\* C4: when the Table-Aware output (trimmed) does not exceed 200 characters the
\* Native Extractor is run, and after it the best text is the Native text if
\* its trimmed length is strictly greater than the Table-Aware one's and the
\* Table-Aware text otherwise, a tie included.
C4_NativeOnlyIfLonger ==
    /\ (out.table.status = "ok" /\ TrimLen(out.table.text) <= TableMinChars
            /\ pc # "step3") => Called("native")
    /\ pc = "step4" =>
          /\ LastCall = "native"
          /\ out.table.status = "ok" /\ out.native.status = "ok"
          /\ text = IF TrimLen(out.native.text) > TrimLen(out.table.text)
                    THEN out.native.text
                    ELSE out.table.text

\* a tie between two different texts: the Table-Aware one is kept
C4_Witness ==
    /\ pc = "step4"
    /\ TrimLen(out.native.text) = TrimLen(out.table.text)
    /\ TrimLen(out.table.text) > 0
    /\ out.native.text # out.table.text
    /\ text = out.table.text

\* C5: once steps 2 and 3 are over, the last-resort OCR run happens exactly
\* when the best text of steps 2-3 has (trimmed) under 100 characters, OCR is
\* enabled and step 1 did not already run OCR on the file as a bill; the OCR
\* text replaces the best text only if it is strictly longer.
C5_LastResortOcr ==
    /\ (out.native.status = "ok" /\ pc \in {"step5", "done"}) =>
          (LastResortRan <=>
              /\ TrimLen(Best23) < PoorResultChars
              /\ use_ocr
              /\ ~Step1Runs)
    /\ (pc = "step5" /\ LastResortRan) =>
          /\ text \in {out.ocr.text, Best23}
          /\ text # Best23 => TrimLen(out.ocr.text) > TrimLen(Best23)

\* the last resort ran on a poor result and its longer text took over
C5_Witness ==
    /\ pc = "step5" /\ LastResortRan
    /\ TrimLen(Best23) > 0
    /\ TrimLen(out.ocr.text) > TrimLen(Best23)
    /\ text = out.ocr.text

\* C6: on every path without an exception the returned value is the
\* normalizer applied to the raw output of one extractor invoked during the
\* call: not a mixture of two outputs and not a text left as extracted.
C6_SingleNormalizedWinner ==
    (pc = "done" /\ ~raised) =>
        \E s \in Strategies :
            /\ Called(s)
            /\ out[s].status = "ok"
            /\ result = _clean_text(out[s].text)

\* all three extractors ran, and the winner is returned in a normalized form
\* that differs from the text as extracted
C6_Witness ==
    /\ pc = "done" /\ ~raised
    /\ calls = << "table", "native", "ocr" >>
    /\ result # EmptyText
    /\ result # text
    /\ result = _clean_text(text)

\* C7: when an extractor raises, its contribution counts as empty and the
\* rest of the fallback chain still runs: after the OCR Extractor of step 1
\* raised the Table-Aware Extractor is run, and after the Table-Aware
\* Extractor raised the Native Extractor is run.
C7_RaiseDoesNotStopChain ==
    /\ (pc = "done" /\ Step1Runs /\ out.ocr.status = "raised") =>
          Called("table")
    /\ (pc = "done" /\ out.table.status = "raised") => Called("native")

(***************************************************************************)
(* The tokenizer.  tiktoken's cl100k_base encoding is a library; it is     *)
(* modelled by a greedy tokenizer whose vocabulary holds, for every        *)
(* character c, the pieces "c" and "cc": a run of n characters encodes to  *)
(* n \div 2 two-character tokens followed by n % 2 one-character token.    *)
(* A token is written as the run it stands for.                            *)
(***************************************************************************)
RECURSIVE encodeRun(_, _)
encodeRun(c, n) ==
    IF n = 0 THEN << >>
    ELSE IF n = 1 THEN << Run(c, 1) >>
    ELSE << Run(c, 2) >> \o encodeRun(c, n - 2)

RECURSIVE encode(_)
\* self.encoding.encode(text)
encode(t) ==
    IF t = << >> THEN << >>
    ELSE encodeRun(Head(t).c, Head(t).n) \o encode(Tail(t))

\* self.encoding.encode(text) raises ValueError on a text that spells a
\* special token (the character ENDOFTEXT stands for such a spelling)
EncodeRaises(t) == \E i \in DOMAIN t : t[i].c = "ENDOFTEXT"

\* self.encoding.decode(chunk_tokens): the pieces of the tokens, concatenated
decode(toks) == Canon(toks)

\* Python tokens[lo:hi] for 0 <= lo
Slice(seq, lo, hi) ==
    LET h == IF hi > Len(seq) THEN Len(seq) ELSE hi
    IN  IF lo >= h THEN << >> ELSE SubSeq(seq, lo + 1, h)

(***************************************************************************)
(* DocumentProcessor._extract_bill_info.  The texts of this model are      *)
(* written with the letters a and b, the words "Service Period" and "to",  *)
(* digits, blanks and $ . , / - only, so of the six patterns only the      *)
(* dollar-amount pattern of line 451, the date pattern of line 458 and the *)
(* service-period pattern of line 479 can match: the energy, account and   *)
(* total patterns need a keyword no text holds.                            *)
(***************************************************************************)

RECURSIVE Expand(_)
\* the characters of a text, one by one
Expand(t) ==
    IF t = << >> THEN << >>
    ELSE IF Head(t).n = 0 THEN Expand(Tail(t))
    ELSE << Head(t).c >> \o Expand(<< Run(Head(t).c, Head(t).n - 1) >> \o Tail(t))

\* the text made of the characters s[lo..hi]
Compress(s, lo, hi) == Canon([i \in 1 .. (hi - lo + 1) |-> Run(s[lo + i - 1], 1)])

RECURSIVE SkipWhile(_, _, _)
\* the first index at or after i whose character is not in set
SkipWhile(s, i, set) ==
    IF i <= Len(s) /\ s[i] \in set THEN SkipWhile(s, i + 1, set) ELSE i

\* r'\$\s*\d+[.,]\d{2}' matched at index i: the index of the last character of
\* the match, or 0 when there is no match at i
MatchAmountAt(s, i) ==
    IF i > Len(s) \/ s[i] # "$" THEN 0
    ELSE LET j == SkipWhile(s, i + 1, Whitespace)
             k == SkipWhile(s, j, Digits)
         IN  IF /\ k > j
                /\ k + 2 <= Len(s)
                /\ s[k] \in {".", ","}
                /\ s[k + 1] \in Digits
                /\ s[k + 2] \in Digits
             THEN k + 2
             ELSE 0

RECURSIVE FindAmounts(_, _)
\* re.findall(r'\$\s*\d+[.,]\d{2}', text): the matches from left to right
FindAmounts(s, i) ==
    IF i > Len(s) THEN << >>
    ELSE LET e == MatchAmountAt(s, i)
         IN  IF e = 0 THEN FindAmounts(s, i + 1)
             ELSE << Compress(s, i, e) >> \o FindAmounts(s, e + 1)

DateSeparators == {"/", ".", "-"}

\* \b between s[i - 1] and s[i]
WordBoundary(s, i) ==
    (i > 1 /\ s[i - 1] \in WordChars) # (i <= Len(s) /\ s[i] \in WordChars)

\* s[lo..hi] lies in s and holds only digits
AllDigits(s, lo, hi) ==
    /\ 1 <= lo
    /\ hi <= Len(s)
    /\ \A k \in lo .. hi : s[k] \in Digits

\* r'\d{1,2}[/.-]\d{1,2}[/.-]\d{4}' matches at i with d1 month digits and d2
\* day digits
DateShapeInside(s, i, d1, d2) ==
    /\ AllDigits(s, i, i + d1 - 1)
    /\ i + d1 + d2 + 5 <= Len(s)
    /\ s[i + d1] \in DateSeparators
    /\ AllDigits(s, i + d1 + 1, i + d1 + d2)
    /\ s[i + d1 + d2 + 1] \in DateSeparators
    /\ AllDigits(s, i + d1 + d2 + 2, i + d1 + d2 + 5)

\* the date pattern matches at i with d1 month digits and d2 day digits
DateShape(s, i, d1, d2) ==
    /\ WordBoundary(s, i)
    /\ DateShapeInside(s, i, d1, d2)
    /\ WordBoundary(s, i + d1 + d2 + 6)

\* r'\b\d{1,2}[/.-]\d{1,2}[/.-]\d{4}\b' matched at index i: the index of the
\* last character of the match, or 0 when there is no match at i; the
\* separators leave one choice of field widths at most
MatchDateAt(s, i) ==
    IF \E d1, d2 \in 1 .. 2 : DateShape(s, i, d1, d2)
    THEN LET w == CHOOSE w \in (1 .. 2) \X (1 .. 2) : DateShape(s, i, w[1], w[2])
         IN  i + w[1] + w[2] + 5
    ELSE 0

RECURSIVE FindDates(_, _)
\* re.findall of the date pattern: the matches from left to right
FindDates(s, i) ==
    IF i > Len(s) THEN << >>
    ELSE LET e == MatchDateAt(s, i)
         IN  IF e = 0 THEN FindDates(s, i + 1)
             ELSE << Compress(s, i, e) >> \o FindDates(s, e + 1)

\* the date pattern without its \b, as the service-period patterns embed it,
\* matched at index i: the index of the last character, or 0
MatchDateInsideAt(s, i) ==
    IF \E d1, d2 \in 1 .. 2 : DateShapeInside(s, i, d1, d2)
    THEN LET w == CHOOSE w \in (1 .. 2) \X (1 .. 2) :
                      DateShapeInside(s, i, w[1], w[2])
         IN  i + w[1] + w[2] + 5
    ELSE 0

\* s holds the characters of word from index i on
StartsWithAt(s, i, word) ==
    /\ i >= 1
    /\ i + Len(word) - 1 <= Len(s)
    /\ SubSeq(s, i, i + Len(word) - 1) = word

\* (?:Service|service|SERVICE|Period|period|PERIOD)
PeriodKeywords ==
    << << "S", "e", "r", "v", "i", "c", "e" >>,
       << "s", "e", "r", "v", "i", "c", "e" >>,
       << "S", "E", "R", "V", "I", "C", "E" >>,
       << "P", "e", "r", "i", "o", "d" >>,
       << "p", "e", "r", "i", "o", "d" >>,
       << "P", "E", "R", "I", "O", "D" >> >>

\* line 479 matched at index i: the indices of the first and the last
\* character of the captured date, or << 0, 0 >>; the lazy [\s\w]*? stops at
\* the first index where a date follows
MatchPeriodAt(s, i) ==
    IF \E k \in DOMAIN PeriodKeywords : StartsWithAt(s, i, PeriodKeywords[k])
    THEN LET k == CHOOSE k \in DOMAIN PeriodKeywords :
                      StartsWithAt(s, i, PeriodKeywords[k])
             from == i + Len(PeriodKeywords[k])
             stops == {j \in from .. Len(s) :
                          /\ MatchDateInsideAt(s, j) # 0
                          /\ \A g \in from .. (j - 1) :
                                s[g] \in Whitespace \cup WordChars}
         IN  IF stops = {} THEN << 0, 0 >>
             ELSE LET j == CHOOSE j \in stops : \A h \in stops : j <= h
                  IN  << j, MatchDateInsideAt(s, j) >>
    ELSE << 0, 0 >>

RECURSIVE FindPeriods(_, _)
\* re.findall of the pattern of line 479: the captured dates, left to right
FindPeriods(s, i) ==
    IF i > Len(s) THEN << >>
    ELSE LET m == MatchPeriodAt(s, i)
         IN  IF m[2] = 0 THEN FindPeriods(s, i + 1)
             ELSE << Compress(s, m[1], m[2]) >> \o FindPeriods(s, m[2] + 1)

SeqToSet(seq) == {seq[i] : i \in DOMAIN seq}

\* the orders in which iterating over set(matches) can yield its elements
Orderings(S) ==
    {f \in [1 .. Cardinality(S) -> S] : \A x \in S : \E i \in DOMAIN f : f[i] = x}

\* the reports _extract_bill_info can return for a text: a sequence of lines,
\* empty for the empty string
_extract_bill_info(t) ==
    LET dollar_amounts == FindAmounts(Expand(t), 1)
        dates == FindDates(Expand(t), 1)
        listed(f) == [i \in DOMAIN f |-> [line |-> "  ", match |-> f[i]]]
        amount_lines(f) ==
            IF dollar_amounts = << >> THEN << >>
            ELSE << [line |-> "AMOUNTS FOUND:"] >> \o listed(f)
        date_lines(f) ==
            IF dates = << >> THEN << >>
            ELSE << [line |-> "\nDATES FOUND:"] >> \o listed(f)
        period_matches == FindPeriods(Expand(t), 1)
        period_lines(f) ==
            IF period_matches = << >> THEN << >>
            ELSE << [line |-> "\nSERVICE PERIODS:"] >> \o listed(f)
    IN  IF dollar_amounts = << >> /\ dates = << >> /\ period_matches = << >>
        THEN {EmptyText}
        ELSE {<< [line |-> "=== EXTRACTED UTILITY BILL INFORMATION ==="] >>
              \o amount_lines(fa) \o date_lines(fd) \o period_lines(fp) :
                 fa \in Orderings(SeqToSet(dollar_amounts)),
                 fd \in Orderings(SeqToSet(dates)),
                 fp \in Orderings(SeqToSet(period_matches))}

(***************************************************************************)
(* The documents handed to chunk_documents: the records load_documents     *)
(* builds, with a non-blank content.                                       *)
(***************************************************************************)
MaxRuns == 5
MaxDocs == 2
MaxChunkSize == 4

PlainChars == << "a", "0", "b", "1" >>

\* k runs of lengths 2, 3, 1, 2, 3, 1, ...: "aa000b11aaa0..."
PlainText(k) ==
    Canon([i \in 1 .. k |-> Run(PlainChars[((i - 1) % 4) + 1], 1 + (i % 3))])

\* "$0.00" followed by a plain text
BillText(k) ==
    Canon(<< Run("$", 1), Run("0", 1), Run(".", 1), Run("0", 2) >> \o PlainText(k))

DocTexts ==
    {PlainText(k) : k \in 1 .. MaxRuns} \cup {BillText(k) : k \in 0 .. (MaxRuns - 3)}

\* lines 47-51; the source path is written as the position of the file in the
\* directory listing
Document(content, source, filename) ==
    [content |-> content, source |-> source, filename |-> filename]

\* the lists load_documents can return: files of different names
DocumentLists ==
    UNION {{docs \in [1 .. n -> [content : DocTexts, source : 1 .. n,
                                 filename : DocFiles]] :
                /\ \A i \in 1 .. n : docs[i].source = i
                /\ \A i, j \in 1 .. n :
                      i # j => docs[i].filename # docs[j].filename} :
           n \in 1 .. MaxDocs}

(***************************************************************************)
(* DocumentProcessor.chunk_documents and DocumentProcessor._split_text.    *)
(***************************************************************************)
Pge == << "p", "g", "e" >>
Bill == << "b", "i", "l", "l" >>

\* the test of lines 437-438 made on line 416 too
IsBillFilenamePgeOnly(filename) == Contains(lower(filename), Pge)

\* line 416
IsBillFilename(filename) ==
    Contains(lower(filename), Pge) \/ Contains(lower(filename), Bill)

\* no slot counted for the structured-info chunk
ChunkIdOffsetNone(filename) == 0

\* lines 437-438: (1 if 'pge' in doc['filename'].lower() else 0)
ChunkIdOffset(filename) == IF Contains(lower(filename), Pge) THEN 1 ELSE 0

\* line 502: len(tokens) <= self.chunk_size
FitsOneChunk(n, size) == n <= size

\* line 509: end = min(start + self.chunk_size, len(tokens))
WindowEnd(from, size, n) == IF from + size < n THEN from + size ELSE n

\* the step one token too long
NextStartOffByOne(from, size, overlap) == from + size - overlap + 1

\* the next window starts where the previous one ended
NextStartNoOverlap(from, size, overlap) == from + size

\* the step one token too short
NextStartOffByOneBack(from, size, overlap) ==
    IF size - overlap > 1 THEN from + size - overlap - 1 ELSE from + 1

\* the overlap added instead of subtracted
NextStartSkips(from, size, overlap) == from + size + overlap

\* line 517: start += self.chunk_size - self.chunk_overlap
NextStart(from, size, overlap) == from + size - overlap

\* lines 420-427
StructuredChunk(doc, structured_info) ==
    [content |-> structured_info,
     source |-> doc.source,
     filename |-> doc.filename,
     chunk_id |-> 0,
     total_chunks |-> 1,
     type |-> "structured_bill_info"]

\* lines 433-440, for the chunk of index i (from 0) of n
TextChunk(doc, i, chunk, n) ==
    [content |-> chunk,
     source |-> doc.source,
     filename |-> doc.filename,
     chunk_id |-> i + ChunkIdOffset(doc.filename),
     total_chunks |-> n + ChunkIdOffset(doc.filename),
     type |-> "text_chunk"]

\* lines 412-427: the top of the for loop, up to the structured-info chunk
BillInfoStep ==
    /\ cpc = "doc"
    /\ LET doc == documents[di]
       IN  IF IsBillFilename(doc.filename)
           THEN \E structured_info \in _extract_bill_info(doc.content) :
                   chunks' = IF structured_info # EmptyText
                             THEN Append(chunks, StructuredChunk(doc, structured_info))
                             ELSE chunks
           ELSE chunks' = chunks
    /\ cpc' = "split"
    /\ UNCHANGED << chunk_size, chunk_overlap, documents, di, tokens, start,
                    doc_chunks, windows, evars, pvars >>

\* line 500 raises and neither _split_text nor chunk_documents has a handler:
\* the exception leaves chunk_documents, no list is returned
OnEncodeError(doc_text) ==
    [cpc |-> "raised", doc_chunks |-> << >>]

\* lines 430 and 499-506: _split_text is entered; a text of chunk_size tokens
\* or fewer is returned as it is, its window being all its tokens
SplitStart ==
    /\ cpc = "split"
    /\ LET doc_text == documents[di].content
           toks == encode(doc_text)
       IN  IF EncodeRaises(doc_text)
           THEN /\ cpc' = OnEncodeError(doc_text).cpc
                /\ doc_chunks' = OnEncodeError(doc_text).doc_chunks
                /\ tokens' = << >>
                /\ start' = 0
                /\ windows' = Append(windows, << >>)
           ELSE /\ tokens' = toks
                /\ start' = 0
                /\ IF FitsOneChunk(Len(toks), chunk_size)
                   THEN /\ doc_chunks' = << doc_text >>
                        /\ windows' = Append(windows, << [start |-> 0, end |-> Len(toks)] >>)
                        /\ cpc' = "emit"
                   ELSE /\ doc_chunks' = << >>
                        /\ windows' = Append(windows, << >>)
                        /\ cpc' = "window"
    /\ UNCHANGED << chunk_size, chunk_overlap, documents, chunks, di, evars,
                    pvars >>

\* lines 508-517: one iteration of the while loop
SplitWindow ==
    /\ cpc = "window"
    /\ IF start < Len(tokens)
       THEN LET end == WindowEnd(start, chunk_size, Len(tokens))
                chunk_tokens == Slice(tokens, start, end)
                chunk_text == decode(chunk_tokens)
            IN  /\ doc_chunks' = Append(doc_chunks, chunk_text)
                /\ windows' = [windows EXCEPT ![di] =
                                  Append(@, [start |-> start, end |-> end])]
                /\ IF end >= Len(tokens)
                   THEN cpc' = "emit" /\ start' = start
                   ELSE /\ cpc' = "window"
                        /\ start' = NextStart(start, chunk_size, chunk_overlap)
       ELSE /\ cpc' = "emit"
            /\ UNCHANGED << doc_chunks, windows, start >>
    /\ UNCHANGED << chunk_size, chunk_overlap, documents, chunks, di, tokens,
                    evars, pvars >>

\* lines 432-440: the records of the document's regular chunks, then the next
\* document or, after the last, `return chunks`
EmitChunks ==
    /\ cpc = "emit"
    /\ chunks' = chunks \o
          [i \in 1 .. Len(doc_chunks) |->
              TextChunk(documents[di], i - 1, doc_chunks[i], Len(doc_chunks))]
    /\ IF di < Len(documents)
       THEN di' = di + 1 /\ cpc' = "doc"
       ELSE di' = di /\ cpc' = "done"
    /\ UNCHANGED << chunk_size, chunk_overlap, documents, tokens, start,
                    doc_chunks, windows, evars, pvars >>

\* no _extract_pdf call is running
OrchestratorIdle ==
    /\ use_ocr = TRUE
    /\ file = << >>
    /\ pc = "idle"
    /\ text = EmptyText
    /\ calls = << >>
    /\ out = [s \in Strategies |-> NotRun]
    /\ raised = FALSE
    /\ outcome = "running"
    /\ result = EmptyText

\* chunk_documents has just been called on a list of loaded documents, by a
\* processor built with 1 <= chunk_size and 0 <= chunk_overlap < chunk_size
InitChunk ==
    /\ chunk_size \in 1 .. MaxChunkSize
    /\ chunk_overlap \in 0 .. (chunk_size - 1)
    /\ documents \in DocumentLists
    /\ chunks = << >>
    /\ cpc = "doc"
    /\ di = 1
    /\ tokens = << >>
    /\ start = 0
    /\ doc_chunks = << >>
    /\ windows = << >>
    /\ OrchestratorIdle
    /\ PureIdle

NextChunk == BillInfoStep \/ SplitStart \/ SplitWindow \/ EmitChunks

SpecChunk == InitChunk /\ [][NextChunk]_vars

\* a text that holds the spelling of a special token
SpecialTokenText == << Run("a", 2), Run("ENDOFTEXT", 1), Run("b", 3) >>

\* the lists load_documents can return when a file may hold such a text
DocumentListsAnyText ==
    UNION {{docs \in [1 .. n -> [content : DocTexts \cup {SpecialTokenText},
                                 source : 1 .. n,
                                 filename : DocFiles]] :
                /\ \A i \in 1 .. n : docs[i].source = i
                /\ \A i, j \in 1 .. n :
                      i # j => docs[i].filename # docs[j].filename} :
           n \in 1 .. MaxDocs}

\* chunk_documents has just been called on such a list
InitChunkAnyText ==
    /\ chunk_size \in 1 .. MaxChunkSize
    /\ chunk_overlap \in 0 .. (chunk_size - 1)
    /\ documents \in DocumentListsAnyText
    /\ chunks = << >>
    /\ cpc = "doc"
    /\ di = 1
    /\ tokens = << >>
    /\ start = 0
    /\ doc_chunks = << >>
    /\ windows = << >>
    /\ OrchestratorIdle
    /\ PureIdle

SpecChunkAnyText == InitChunkAnyText /\ [][NextChunk]_vars

\* _split_text runs on one thread with nothing to wait for: its next statement
\* always runs
SpecChunkFair == SpecChunk /\ WF_vars(SplitStart) /\ WF_vars(SplitWindow)

(***************************************************************************)
(* Properties of the Chunker.                                              *)
(***************************************************************************)
\* the text_chunk records of document d, in the order of `chunks`
RegularChunksOf(d) ==
    SelectSeq(chunks, LAMBDA r :
        r.type = "text_chunk" /\ r.source = documents[d].source)
TokensOf(d) == encode(documents[d].content)
HasPge(d) == Contains(lower(documents[d].filename), Pge)
\* window w of a token sequence
WindowTokens(toks, w) == SubSeq(toks, w.start + 1, w.end)

RECURSIVE Reconstruct(_, _, _, _)
\* the windows ws[i..] of toks concatenated, each without the tokens before
\* index covered, which its predecessors already gave
Reconstruct(ws, toks, i, covered) ==
    IF i > Len(ws) THEN << >>
    ELSE LET from == IF ws[i].start > covered THEN ws[i].start ELSE covered
         IN  SubSeq(toks, from + 1, ws[i].end)
                \o Reconstruct(ws, toks, i + 1, ws[i].end)

C9_SlidingWindow ==
    cpc = "done" =>
        \A d \in DOMAIN documents :
            LET toks == TokensOf(d)
                rs == RegularChunksOf(d)
                ws == windows[d]
                last == Len(ws)
            IN  Len(toks) > chunk_size =>
                    /\ last >= 1
                    /\ Len(rs) = last
                    /\ \A i \in 1 .. last :
                          /\ ws[i].start = (i - 1) * (chunk_size - chunk_overlap)
                          /\ ws[i].start < Len(toks)
                          /\ i < last =>
                                /\ ws[i].end = ws[i].start + chunk_size
                                /\ ws[i].end < Len(toks)
                          /\ i = last =>
                                /\ ws[i].end = Len(toks)
                                /\ ws[i].end - ws[i].start <= chunk_size
                          /\ rs[i].content = decode(WindowTokens(toks, ws[i]))
                          /\ rs[i].chunk_id - rs[1].chunk_id = i - 1

\* three windows or more with an overlap, the last one shorter than chunk_size
C9_Witness ==
    /\ cpc = "done"
    /\ chunk_overlap > 0
    /\ \E d \in DOMAIN documents :
          /\ Len(TokensOf(d)) > chunk_size
          /\ Len(windows[d]) >= 3
          /\ Len(RegularChunksOf(d)) = Len(windows[d])
          /\ LET w == windows[d][Len(windows[d])]
             IN  w.end - w.start < chunk_size

SharedTokens(w1, w2) ==
    Cardinality({k \in w1.start .. (w1.end - 1) : w2.start <= k /\ k < w2.end})

\* the structured_bill_info records of document d
StructuredChunksOf(d) ==
    SelectSeq(chunks, LAMBDA r :
        r.type = "structured_bill_info" /\ r.source = documents[d].source)

\* the structured-field report of document d is not empty
HasReport(d) == _extract_bill_info(documents[d].content) # {EmptyText}

\* C11: a document of chunk_size + 1 tokens gives exactly two regular chunks,
\* and any two consecutive windows of a document share exactly chunk_overlap
\* tokens.
C11_BoundaryOverlap ==
    cpc = "done" =>
        \A d \in DOMAIN documents :
            LET ws == windows[d]
            IN  /\ Len(TokensOf(d)) = chunk_size + 1 =>
                      (Len(ws) = 2 /\ Len(RegularChunksOf(d)) = 2)
                /\ \A i \in 2 .. Len(ws) :
                      SharedTokens(ws[i - 1], ws[i]) = chunk_overlap

\* a document of chunk_size + 1 tokens cut with an overlap of two tokens
C11_Witness ==
    /\ cpc = "done"
    /\ chunk_overlap = 2
    /\ \E d \in DOMAIN documents :
          /\ Len(TokensOf(d)) = chunk_size + 1
          /\ Len(RegularChunksOf(d)) = 2
          /\ SharedTokens(windows[d][1], windows[d][2]) = 2

\* C12: for a document whose filename contains "pge" or "bill" and whose
\* structured-field report is not empty, the structured-info chunk has
\* chunk_id 0 and type structured_bill_info, and the N regular chunks have
\* chunk_id 1..N and total_chunks N + 1.
C12_BillChunkNumbering ==
    cpc = "done" =>
        \A d \in DOMAIN documents :
            (/\ \/ Contains(lower(documents[d].filename), Pge)
                \/ Contains(lower(documents[d].filename), Bill)
             /\ HasReport(d)) =>
                LET rs == RegularChunksOf(d)
                    ss == StructuredChunksOf(d)
                IN  /\ Len(ss) = 1
                    /\ ss[1].chunk_id = 0
                    /\ \A i \in DOMAIN rs :
                          /\ rs[i].chunk_id = i
                          /\ rs[i].total_chunks = Len(rs) + 1

\* C13: the regular chunks of a document are numbered from 1 and count one
\* chunk more only when a structured-info chunk was emitted before them; a
\* document without a structured-info chunk has chunk_id 0..N-1 and
\* total_chunks N on its N regular chunks.
C13_OffsetOnlyWithStructuredChunk ==
    cpc = "done" =>
        \A d \in DOMAIN documents :
            StructuredChunksOf(d) = << >> =>
                LET rs == RegularChunksOf(d)
                IN  \A i \in DOMAIN rs :
                        /\ rs[i].chunk_id = i - 1
                        /\ rs[i].total_chunks = Len(rs)

\* C14: chunking the single document pge-bill.txt, whose text has a non-empty
\* report and fits in one window, returns two records: chunk 0 of type
\* structured_bill_info with the report, then chunk 1 of type text_chunk with
\* the whole text, both with total_chunks 2.
C14_PgeBillScenario ==
    (/\ cpc = "done"
     /\ Len(documents) = 1
     /\ documents[1].filename = PgeBillTxt
     /\ HasReport(1)
     /\ Len(TokensOf(1)) <= chunk_size) =>
        /\ Len(chunks) = 2
        /\ chunks[1].type = "structured_bill_info"
        /\ chunks[1].chunk_id = 0
        /\ chunks[1].content \in _extract_bill_info(documents[1].content)
        /\ chunks[2].type = "text_chunk"
        /\ chunks[2].chunk_id = 1
        /\ chunks[2].content = documents[1].content
        /\ chunks[1].total_chunks = 2
        /\ chunks[2].total_chunks = 2

----------------------------------------------------------------------------
\* The filename classifier called on its own.

\* name stems: each indicator in some spelling, and near misses of them
NameStems ==
    { << "p", "g", "e" >>, << "P", "G", "&", "E" >>,
      << "P", "a", "c", "i", "f", "i", "c", " ", "G", "a", "s" >>,
      << "E", "L", "E", "C", "T", "R", "I", "C" >>,
      << "B", "i", "l", "l" >>, << "u", "t", "i", "l", "i", "t", "y" >>,
      << "E", "n", "e", "r", "g", "y" >>, << "g", "a", "s" >>,
      << "E", "d", "i", "s", "o", "n" >>, << "S", "D", "G", "E" >>,
      << "p", "e", "c", "o" >>, << "C", "o", "n", " ", "E", "d" >>,
      << "C", "o", "n", "_", "E", "d" >>, << "p", "g", "_", "e" >>,
      << "b", "i", "l" >>, << "g", "a", " ", "s" >>,
      << "n", "o", "r", "m", "a", "l" >>, << >> }

NamePrefixes == { << >>, << "m", "y", "-" >> }

NameSuffixes ==
    { << >>, << ".", "p", "d", "f" >>,
      << "-", "2", "0", "2", "5", ".", "P", "D", "F" >> }

\* the filenames the classifier is called on
Filenames ==
    {p \o m \o x : p \in NamePrefixes, m \in NameStems, x \in NameSuffixes}
        \cup {PgeMay2025Pdf, NormalDocumentPdf, ConEdStatementPdf}

\* the processor's fields that no call of a pure function reads or writes
ExtractIdle ==
    /\ file = << >>
    /\ pc = "idle"
    /\ text = EmptyText
    /\ calls = << >>
    /\ out = [s \in Strategies |-> NotRun]
    /\ raised = FALSE
    /\ outcome = "running"
    /\ result = EmptyText

\* a processor has been built and _is_utility_bill is about to be called
InitClassify ==
    /\ use_ocr \in BOOLEAN
    /\ ExtractIdle
    /\ ChunkerIdle
    /\ ppc = "start"
    /\ arg \in Filenames
    /\ ret = << >>
    /\ ret2 = << >>
    /\ idx = 0

\* self._is_utility_bill(filename)
Classify ==
    /\ ppc = "start"
    /\ ret' = _is_utility_bill(arg)
    /\ ppc' = "once"
    /\ UNCHANGED << evars, cvars, arg, ret2, idx >>

\* DocumentProcessor(use_ocr=...): another processor, built the other way
Construct ==
    /\ ppc = "once"
    /\ use_ocr' = ~use_ocr
    /\ ppc' = "rebuilt"
    /\ UNCHANGED << file, pc, text, calls, out, raised, outcome, result,
                    cvars, arg, ret, ret2, idx >>

\* a second call with the same filename
ClassifyAgain ==
    /\ ppc \in {"once", "rebuilt"}
    /\ ret2' = _is_utility_bill(arg)
    /\ ppc' = "twice"
    /\ UNCHANGED << evars, cvars, arg, ret, idx >>

NextClassify == Classify \/ Construct \/ ClassifyAgain

SpecClassify == InitClassify /\ [][NextClassify]_vars

\* the twelve vocabulary strings
Vocabulary ==
    { << "p", "g", "e" >>, << "p", "g", "&", "e" >>,
      << "p", "a", "c", "i", "f", "i", "c", " ", "g", "a", "s" >>,
      << "e", "l", "e", "c", "t", "r", "i", "c" >>, << "b", "i", "l", "l" >>,
      << "u", "t", "i", "l", "i", "t", "y" >>,
      << "e", "n", "e", "r", "g", "y" >>, << "g", "a", "s" >>,
      << "e", "d", "i", "s", "o", "n" >>, << "s", "d", "g", "e" >>,
      << "p", "e", "c", "o" >>, << "c", "o", "n", " ", "e", "d" >> }

\* v is a contiguous substring of s
IsSubstring(v, s) ==
    \E i \in 0 .. Len(s) : \E j \in i .. Len(s) :
        /\ j - i = Len(v)
        /\ \A k \in 1 .. Len(v) : s[i + k] = v[k]

\* C15 as stated: _is_utility_bill is true for pge-may-2025.pdf, false for
\* normal-document.pdf and true for Con_Ed_Statement.pdf.
C15_ClassifierExamples ==
    ppc = "once" =>
        /\ arg = PgeMay2025Pdf => ret = TRUE
        /\ arg = NormalDocumentPdf => ret = FALSE
        /\ arg = ConEdStatementPdf => ret = TRUE

\* C15: _is_utility_bill is true for pge-may-2025.pdf, false for
\* normal-document.pdf, and false for Con_Ed_Statement.pdf, whose lower-cased
\* name has "con_ed" where the vocabulary has "con ed".
C15_ClassifierExamplesUnderscore ==
    ppc = "once" =>
        /\ arg = PgeMay2025Pdf => ret = TRUE
        /\ arg = NormalDocumentPdf => ret = FALSE
        /\ arg = ConEdStatementPdf => ret = FALSE

\* the classifier has answered for Con_Ed_Statement.pdf
C15_Witness ==
    /\ ppc = "once"
    /\ arg = ConEdStatementPdf
    /\ ret = FALSE

\* C16: _is_utility_bill returns true exactly when the lower-cased filename
\* has one of the twelve vocabulary strings as a contiguous substring, and a
\* second call with the same filename, on whatever processor, returns the
\* same value.
C16_ClassifierContract ==
    /\ ppc \in {"once", "rebuilt", "twice"} =>
          (ret = TRUE <=> \E v \in Vocabulary : IsSubstring(v, lower(arg)))
    /\ ppc = "twice" => ret2 = ret

\* a name matched only through lower-casing was classified twice, the second
\* time by a processor built with the other use_ocr
C16_Witness ==
    /\ ppc = "twice"
    /\ ret = TRUE
    /\ ret2 = TRUE
    /\ ~ (\E v \in Vocabulary : IsSubstring(v, arg))
    /\ \E v \in Vocabulary : IsSubstring(v, lower(arg))

----------------------------------------------------------------------------
\* The text normalizer called on its own, then on its own output.

MaxTextRuns == 3
MaxRunLen == 2

\* a letter, blanks, the hyphen and typographic characters: two of the dashes
\* the replacements dictionary names and a right single quotation mark
NormalizerChars == {"a", " ", "NL", "-", "EM_DASH", "MINUS", "RSQUO"}

\* the texts _clean_text is called on
NormalizerTexts ==
    {Canon(t) : t \in UNION {[1 .. k -> [c : NormalizerChars, n : 1 .. MaxRunLen]] :
                                k \in 0 .. MaxTextRuns}}

\* a processor has been built and _clean_text is about to be called
InitNormalize ==
    /\ use_ocr = TRUE
    /\ ExtractIdle
    /\ ChunkerIdle
    /\ ppc = "start"
    /\ arg \in NormalizerTexts
    /\ ret = << >>
    /\ ret2 = << >>
    /\ idx = 0

\* self._clean_text(text)
Normalize ==
    /\ ppc = "start"
    /\ ret' = _clean_text(arg)
    /\ ppc' = "once"
    /\ UNCHANGED << evars, cvars, arg, ret2, idx >>

\* self._clean_text(...) on the text the first call returned
NormalizeAgain ==
    /\ ppc = "once"
    /\ ret2' = _clean_text(ret)
    /\ ppc' = "twice"
    /\ UNCHANGED << evars, cvars, arg, ret, idx >>

NextNormalize == Normalize \/ NormalizeAgain

SpecNormalize == InitNormalize /\ [][NextNormalize]_vars

\* the ASCII equivalent of a typographic character
AsciiEquivalent(c) ==
    IF c \in {"EN_DASH", "EM_DASH", "MINUS"} THEN "-"
    ELSE IF c \in {"LSQUO", "RSQUO"} THEN "'"
    ELSE IF c \in {"LDQUO", "RDQUO"} THEN "DQUOTE"
    ELSE c

\* the hyphens and straight quotes of t, in order, after every dash and curly
\* quote of t is read as its ASCII equivalent
Marks(t) ==
    Canon([i \in DOMAIN t |-> Run(AsciiEquivalent(t[i].c), t[i].n)])

\* C17: normalizing a text that _clean_text returned leaves it unchanged.
C17_NormalizerIdempotent ==
    ppc = "twice" => ret2 = ret

\* C18: every dash (en, em, minus) of the input is a hyphen of the normalized
\* text and every curly quote a straight quote, in the same order: none is
\* deleted.
C18_TypographicMapping ==
    ppc = "once" =>
        LET kept(r) == r.c \in {"-", "'", "DQUOTE"}
        IN  Canon(SelectSeq(ret, kept)) = Canon(SelectSeq(Marks(arg), kept))

----------------------------------------------------------------------------
(***************************************************************************)
(* UtilityBillProcessor._extract_bill_info (utility_bill_processor.py),    *)
(* the report built inside enhanced OCR, next to the report                *)
(* DocumentProcessor._extract_bill_info builds for the summary chunk.      *)
(***************************************************************************)
DigitChars == << "0", "1", "2", "3", "4", "5", "6", "7", "8", "9" >>

DigitValue(c) == (CHOOSE k \in DOMAIN DigitChars : DigitChars[k] = c) - 1

RECURSIVE Number(_)
\* int() of a sequence of digits
Number(s) ==
    IF s = << >> THEN 0
    ELSE 10 * Number(SubSeq(s, 1, Len(s) - 1)) + DigitValue(s[Len(s)])

RECURSIVE SkipGroups(_, _)
\* (?:,\d{3})* from index i: the index after the last group
SkipGroups(s, i) ==
    IF i <= Len(s) /\ s[i] = "," /\ AllDigits(s, i + 1, i + 3)
    THEN SkipGroups(s, i + 4)
    ELSE i

\* self.patterns['amounts'], r'\$\s*\d{1,3}(?:,\d{3})*\.\d{2}', matched at
\* index i: the index of the last character of the match, or 0
MatchBillAmountAt(s, i) ==
    IF i > Len(s) \/ s[i] # "$" THEN 0
    ELSE LET j == SkipWhile(s, i + 1, Whitespace)
             k == SkipWhile(s, j, Digits)
             g == SkipGroups(s, k)
         IN  IF /\ k - j \in 1 .. 3
                /\ g + 2 <= Len(s)
                /\ s[g] = "."
                /\ s[g + 1] \in Digits
                /\ s[g + 2] \in Digits
             THEN g + 2
             ELSE 0

RECURSIVE FindBillAmounts(_, _)
\* re.findall(self.patterns['amounts'], text)
FindBillAmounts(s, i) ==
    IF i > Len(s) THEN << >>
    ELSE LET e == MatchBillAmountAt(s, i)
         IN  IF e = 0 THEN FindBillAmounts(s, i + 1)
             ELSE << Compress(s, i, e) >> \o FindBillAmounts(s, e + 1)

\* float(amount_str.replace('$', '').replace(',', '')) in hundredths, for a
\* string of digits with two decimals at most
AmountCents(amount_str) ==
    LET t == SelectSeq(Expand(amount_str),
                       LAMBDA c : c \notin ({"$", ","} \cup Whitespace))
    IN  IF \E k \in DOMAIN t : t[k] = "."
        THEN LET k == CHOOSE k \in DOMAIN t : t[k] = "."
             IN  100 * Number(SubSeq(t, 1, k - 1))
                     + Number(SubSeq(t, k + 1, Len(t)))
                         * (IF Len(t) - k = 1 THEN 10 ELSE 1)
        ELSE 100 * Number(t)

MinBillAmount == 10
MaxBillAmount == 2000

\* UtilityBillProcessor._is_reasonable_bill_amount
_is_reasonable_bill_amount(amount_str) ==
    /\ 100 * MinBillAmount <= AmountCents(amount_str)
    /\ AmountCents(amount_str) <= 100 * MaxBillAmount

RECURSIVE SplitDate(_)
\* re.split(r'[/.-]', date_str)
SplitDate(s) ==
    IF \E k \in DOMAIN s : s[k] \in DateSeparators
    THEN LET k == CHOOSE k \in DOMAIN s :
                      s[k] \in DateSeparators
                          /\ \A j \in 1 .. (k - 1) : s[j] \notin DateSeparators
         IN  << SubSeq(s, 1, k - 1) >> \o SplitDate(SubSeq(s, k + 1, Len(s)))
    ELSE << s >>

MinYear == 2020
MaxYear == 2030

\* UtilityBillProcessor._is_valid_date
_is_valid_date(date_str) ==
    LET parts == SplitDate(Expand(date_str))
    IN  /\ Len(parts) = 3
        /\ Number(parts[1]) \in 1 .. 12
        /\ Number(parts[2]) \in 1 .. 31
        /\ Number(parts[3]) \in MinYear .. MaxYear

\* s holds word from index i on, in any case (re.IGNORECASE)
StartsWithAnyCaseAt(s, i, word) == StartsWithAt(lower(s), i, word)

\* the length of the first of the words that s holds at index i, or 0
KeywordLenAt(s, i, words) ==
    IF \E k \in DOMAIN words : StartsWithAnyCaseAt(s, i, words[k])
    THEN Len(words[CHOOSE k \in DOMAIN words :
                       /\ StartsWithAnyCaseAt(s, i, words[k])
                       /\ \A j \in 1 .. (k - 1) :
                             ~StartsWithAnyCaseAt(s, i, words[j])])
    ELSE 0

\* no match of self.patterns['service_period']
NoPeriod ==
    [found |-> FALSE, start |-> << 0, 0 >>, end |-> << 0, 0 >>, last |-> 0]

\* the match once both dates have been tried: the captured start is
\* s[d..e1], the captured end s[h..e2], or << 0, 0 >> when the second group
\* did not take part; last is the index of the last character matched
PeriodMatch(d, e1, h, e2) ==
    [found |-> TRUE,
     start |-> << d, e1 >>,
     end |-> IF e2 = 0 THEN << 0, 0 >> ELSE << h, e2 >>,
     last |-> IF e2 = 0 THEN h - 1 ELSE e2]

\* (?:to|-)? tried at index f: the index after it
SkipTo(s, f) ==
    IF StartsWithAnyCaseAt(s, f, << "t", "o" >>) THEN f + 2
    ELSE IF f <= Len(s) /\ s[f] = "-" THEN f + 1
    ELSE f

\* (\d{1,2}[/.-]\d{1,2}[/.-]\d{4})? tried at index h, after the start date
PeriodEndAt(s, d, e1, h) == PeriodMatch(d, e1, h, MatchDateInsideAt(s, h))

\* \s*(?:to|-)?\s* and the end date, after the start date s[d..e1]; there is
\* no match when e1 is 0
PeriodAfterStart(s, d, e1) ==
    IF e1 = 0 THEN NoPeriod
    ELSE PeriodEndAt(s, d, e1,
             SkipWhile(s, SkipTo(s, SkipWhile(s, e1 + 1, Whitespace)),
                       Whitespace))

\* the start date tried at index d
PeriodStartAt(s, d) == PeriodAfterStart(s, d, MatchDateInsideAt(s, d))

\* [\s:]* and the dates, after the second keyword, of length k2, found at b
PeriodAfterSecondWord(s, b, k2) ==
    IF k2 = 0 THEN NoPeriod
    ELSE PeriodStartAt(s, SkipWhile(s, b + k2, Whitespace \cup {":"}))

\* (?:Period|Date) and the rest, after the \s+ that went from a to b
PeriodAfterBlank(s, a, b) ==
    IF b = a THEN NoPeriod
    ELSE PeriodAfterSecondWord(s, b,
             KeywordLenAt(s, b, << << "p", "e", "r", "i", "o", "d" >>,
                                   << "d", "a", "t", "e" >> >>))

\* \s+ and the rest, after the first keyword, of length k1, found at i
PeriodAfterFirstWord(s, i, k1) ==
    IF k1 = 0 THEN NoPeriod
    ELSE PeriodAfterBlank(s, i + k1, SkipWhile(s, i + k1, Whitespace))

\* self.patterns['service_period'] matched at index i; found is FALSE when
\* there is no match at i
MatchBillPeriodAt(s, i) ==
    PeriodAfterFirstWord(s, i,
        KeywordLenAt(s, i, << << "s", "e", "r", "v", "i", "c", "e" >>,
                              << "b", "i", "l", "l" >> >>))

RECURSIVE FindBillPeriods(_, _)
\* lines 189-192: the findall of the pattern, each (start, end) written as
\* "start to end", or as "start" when end is empty
FindBillPeriods(s, i) ==
    IF i > Len(s) THEN << >>
    ELSE LET m == MatchBillPeriodAt(s, i)
         IN  IF ~m.found THEN FindBillPeriods(s, i + 1)
             ELSE << IF m.end = << 0, 0 >>
                     THEN Compress(s, m.start[1], m.start[2])
                     ELSE Canon(Compress(s, m.start[1], m.start[2])
                                \o << Run(" ", 1), Run("t", 1), Run("o", 1),
                                      Run(" ", 1) >>
                                \o Compress(s, m.end[1], m.end[2])) >>
                  \o FindBillPeriods(s, m.last + 1)

MinInfoChars == 10

\* the reports UtilityBillProcessor._extract_bill_info can return for a text
\* written without the keywords of the usage, account and period patterns
UtilityBillProcessor_extract_bill_info(t, source) ==
    LET reasonable_amounts ==
            {a \in SeqToSet(FindBillAmounts(Expand(t), 1)) :
                _is_reasonable_bill_amount(a)}
        valid_dates ==
            {d \in SeqToSet(FindDates(Expand(t), 1)) : _is_valid_date(d)}
        amount_line(f) ==
            IF f = << >> THEN << >>
            ELSE << [line |-> "AMOUNTS: ", matches |-> f] >>
        date_line(f) ==
            IF f = << >> THEN << >>
            ELSE << [line |-> "DATES: ", matches |-> f] >>
        periods == FindBillPeriods(Expand(t), 1)
        period_line ==
            IF periods = << >> THEN << >>
            ELSE << [line |-> "SERVICE PERIOD: ", periods |-> periods] >>
    IN  IF len(strip(t)) < MinInfoChars THEN {EmptyText}
        ELSE IF reasonable_amounts = {} /\ valid_dates = {} /\ periods = << >>
        THEN {EmptyText}
        ELSE {<< [line |-> "=== ", source |-> source] >>
              \o amount_line(fa) \o date_line(fd) \o period_line :
                 fa \in Orderings(reasonable_amounts),
                 fd \in Orderings(valid_dates)}

----------------------------------------------------------------------------
\* The two report builders called on the same text.

FillerLen == 10

Amount123_45 == << "$", "1", "2", "3", ".", "4", "5" >>
Amount5_00 == << "$", "5", ".", "0", "0" >>
Amount9999_99 == << "$", "9", "9", "9", "9", ".", "9", "9" >>

\* amounts inside, on the edges of and outside the range, with and without
\* a thousands separator
SampleAmounts ==
    { Amount123_45, Amount5_00, Amount9999_99,
      << "$", "1", "0", ".", "0", "0" >>,
      << "$", "9", ".", "9", "9" >>,
      << "$", "2", "0", "0", "0", ".", "0", "0" >>,
      << "$", "2", "0", "0", "0", ".", "0", "1" >>,
      << "$", "1", ",", "2", "3", "4", ".", "5", "6" >> }

Date01_15_2025 == << "0", "1", "/", "1", "5", "/", "2", "0", "2", "5" >>
Date13_40_2025 == << "1", "3", "/", "4", "0", "/", "2", "0", "2", "5" >>
Date02_10_1999 == << "0", "2", "/", "1", "0", "/", "1", "9", "9", "9" >>

\* dates inside, on the edges of and outside the ranges, in the three
\* separators
SampleDates ==
    { Date01_15_2025, Date13_40_2025, Date02_10_1999,
      << "1", "/", "5", "/", "2", "0", "2", "0" >>,
      << "1", "2", "-", "3", "1", "-", "2", "0", "3", "0" >>,
      << "1", "2", ".", "3", "1", ".", "2", "0", "3", "1" >>,
      << "0", "0", "/", "1", "0", "/", "2", "0", "2", "5" >> }

\* the text of the characters of s
Text(s) == Compress(s, 1, Len(s))

\* a filler word of n letters, or nothing
Filler(n) == IF n = 0 THEN << >> ELSE [i \in 1 .. n |-> "a"] \o << " " >>

\* the texts the reports are built from: a filler, an amount, an amount, a
\* date, each of them possibly missing
BillInfoTexts ==
    {Text(Filler(n) \o a1 \o << " " >> \o a2 \o << " " >> \o d) :
        n \in {0, FillerLen},
        a1 \in SampleAmounts \cup {<< >>},
        a2 \in {Amount123_45, << >>},
        d \in SampleDates \cup {<< >>}}

\* a service period as both processors read it, as only the enhanced-OCR
\* report reads it, and as only the summary report reads it
SamplePeriods ==
    { << "B", "i", "l", "l", " ", "P", "e", "r", "i", "o", "d", " ", "1", "/", "5", "/", "2", "0", "2", "0" >>,
      << "B", "i", "l", "l", " ", "D", "a", "t", "e", ":", "1", "/", "5", "/", "2", "0", "2", "0" >>,
      << "p", "e", "r", "i", "o", "d", " ", "1", "/", "5", "/", "2", "0", "2", "0" >> }

\* a service period with its end
PeriodFromTo ==
    << "B", "i", "l", "l", " ", "D", "a", "t", "e", " ", "1", "/", "5", "/", "2", "0", "2", "0", " ", "t", "o", " ", "2", "-", "5", "-", "2", "0", "2", "0" >>

\* texts that state a service period, some of them twice
PeriodTexts ==
    {Text(p1 \o << " " >> \o p2) :
        p1 \in SamplePeriods, p2 \in SamplePeriods \cup {<< >>}}
        \cup {Text(PeriodFromTo)}

\* both processors have been built and the reports are about to be made
InitBillInfo ==
    /\ use_ocr = TRUE
    /\ ExtractIdle
    /\ ChunkerIdle
    /\ ppc = "start"
    /\ arg \in BillInfoTexts \cup PeriodTexts
    /\ ret = << >>
    /\ ret2 = << >>
    /\ idx = 0

\* structured_info = self._extract_bill_info(text), document_processor.py
ExtractSummaryInfo ==
    /\ ppc = "start"
    /\ ret' = _extract_bill_info(arg)
    /\ ppc' = "summary"
    /\ UNCHANGED << evars, cvars, arg, ret2, idx >>

\* info1 = self._extract_bill_info(text1, ...), utility_bill_processor.py
ExtractOcrInfo ==
    /\ ppc = "summary"
    /\ ret2' = UtilityBillProcessor_extract_bill_info(arg, "Page 1 - Direct OCR")
    /\ ppc' = "done"
    /\ UNCHANGED << evars, cvars, arg, ret, idx >>

NextBillInfo == ExtractSummaryInfo \/ ExtractOcrInfo

SpecBillInfo == InitBillInfo /\ [][NextBillInfo]_vars

\* the matches a report lists
ListedMatches(report) ==
    UNION {IF "match" \in DOMAIN report[i] THEN {report[i].match}
           ELSE IF "matches" \in DOMAIN report[i]
                THEN SeqToSet(report[i].matches)
                ELSE {} : i \in DOMAIN report}

ListedAmounts(report) == {m \in ListedMatches(report) : m[1].c = "$"}

ListedDates(report) == {m \in ListedMatches(report) : m[1].c \in Digits}

\* the text holds the characters of s one after the other
Mentions(t, s) == Contains(Expand(t), s)

\* C19: an amount is listed in a report, the summary report as well as the
\* enhanced-OCR report, only if its value lies in [10.00, 2000.00]; "$5.00"
\* and "$9999.99" are never listed and "$123.45" is listed by every report of
\* a text of ten characters or more that mentions it.
C19_AmountValidation ==
    ppc = "done" =>
        \A report \in ret \cup ret2 :
            /\ \A m \in ListedAmounts(report) :
                  AmountCents(m) \in 1000 .. 200000
            /\ Text(Amount5_00) \notin ListedAmounts(report)
            /\ Text(Amount9999_99) \notin ListedAmounts(report)
            /\ (len(strip(arg)) >= 10 /\ Mentions(arg, Amount123_45)) =>
                  Text(Amount123_45) \in ListedAmounts(report)

\* the three fields of a listed date are a month, a day and a year in range
FieldsInRange(m) ==
    LET s == Expand(m)
        seps == {k \in DOMAIN s : s[k] \notin Digits}
        p == CHOOSE p \in seps : \A q \in seps : p <= q
        q == CHOOSE q \in seps : \A r \in seps : r <= q
    IN  /\ Cardinality(seps) = 2
        /\ Number(SubSeq(s, 1, p - 1)) \in 1 .. 12
        /\ Number(SubSeq(s, p + 1, q - 1)) \in 1 .. 31
        /\ Number(SubSeq(s, q + 1, Len(s))) \in 2020 .. 2030

\* C20: a date is listed in a report only if its first field is in 1..12, its
\* second in 1..31 and its year in 2020..2030; "13/40/2025" and "02/10/1999"
\* are never listed and "01/15/2025" is listed by every report of a text of
\* ten characters or more that mentions it.
C20_DateValidation ==
    ppc = "done" =>
        \A report \in ret \cup ret2 :
            /\ \A m \in ListedDates(report) : FieldsInRange(m)
            /\ Text(Date13_40_2025) \notin ListedDates(report)
            /\ Text(Date02_10_1999) \notin ListedDates(report)
            /\ (len(strip(arg)) >= 10 /\ Mentions(arg, Date01_15_2025)) =>
                  Text(Date01_15_2025) \in ListedDates(report)

----------------------------------------------------------------------------
\* Further properties of chunk_documents.

\* the positions in the returned list of the records of document d of a type
PositionsOf(d, type) ==
    {i \in DOMAIN chunks :
        chunks[i].type = type /\ chunks[i].source = documents[d].source}

\* C24: a structured_bill_info chunk is emitted for a document exactly when
\* its filename contains "pge" or "bill" in any case and its report is not
\* empty; there is one at most per document, it holds a report of the text,
\* and it comes before every text_chunk of the document.
C24_StructuredChunkEmission ==
    cpc = "done" =>
        \A d \in DOMAIN documents :
            LET ss == PositionsOf(d, "structured_bill_info")
                ts == PositionsOf(d, "text_chunk")
                name == lower(documents[d].filename)
            IN  /\ ss # {} <=>
                      /\ Contains(name, Pge) \/ Contains(name, Bill)
                      /\ HasReport(d)
                /\ Cardinality(ss) <= 1
                /\ \A i \in ss :
                      /\ chunks[i].content # EmptyText
                      /\ chunks[i].content \in
                             _extract_bill_info(documents[d].content)
                      /\ \A j \in ts : i < j

\* two documents named as bills, only the second with a report: its structured
\* chunk follows the first document's text chunks and precedes its own
C24_Witness ==
    /\ cpc = "done"
    /\ Len(documents) = 2
    /\ documents[1].filename = PgeBillTxt
    /\ documents[2].filename = WaterBillPdf
    /\ PositionsOf(1, "structured_bill_info") = {}
    /\ \E i \in PositionsOf(2, "structured_bill_info") :
          /\ i > 1
          /\ chunks[i - 1].type = "text_chunk"
          /\ Cardinality(PositionsOf(2, "text_chunk")) >= 2

\* ceil(a / b) for a >= 0 and b >= 1
CeilDiv(a, b) == (a + b - 1) \div b

\* the number of windows of every split document is the claimed one
ChunkCountFormula ==
    cpc = "done" =>
        \A d \in DOMAIN documents :
            LET n == Len(TokensOf(d))
            IN  n > chunk_size =>
                    Len(windows[d]) =
                        CeilDiv(n - chunk_size, chunk_size - chunk_overlap) + 1

\* the window start grows on every iteration that goes round again
StartIncreases ==
    (cpc = "window" /\ cpc' = "window") => start' > start

\* C30: with chunk_size >= 1 and 0 <= chunk_overlap < chunk_size the chunker
\* terminates, a document of n > chunk_size tokens gives
\* ceil((n - chunk_size) / (chunk_size - chunk_overlap)) + 1 chunks, and the
\* window start strictly increases on every loop iteration.
C30_ChunkerTerminates ==
    /\ (cpc = "split") ~> (cpc = "emit")
    /\ [](ChunkCountFormula)
    /\ [][StartIncreases]_vars

\* a document split into four windows or more by a step that does not divide
\* what is left after the first window
C30_Witness ==
    /\ cpc = "done"
    /\ \E d \in DOMAIN documents :
          LET n == Len(TokensOf(d))
              step == chunk_size - chunk_overlap
          IN  /\ n > chunk_size
              /\ step >= 2
              /\ (n - chunk_size) % step # 0
              /\ Len(windows[d]) >= 3
              /\ Len(RegularChunksOf(d)) = Len(windows[d])

----------------------------------------------------------------------------
\* A further property of the Extraction Orchestrator.

\* the positions of the invocations of the OCR Extractor in the call
OcrCalls == {i \in DOMAIN calls : calls[i] = "ocr"}

\* C29: one _extract_pdf call invokes the OCR Extractor once at most; with OCR
\* disabled it never does; for a bill with OCR enabled the only invocation is
\* the first of the call, and when its text was too short the Table-Aware
\* Extractor runs next, then (unless that one raised or was accepted) the
\* Native Extractor, and no OCR follows.
C29_OcrAtMostOnce ==
    /\ Cardinality(OcrCalls) <= 1
    /\ ~use_ocr => OcrCalls = {}
    /\ Step1Runs => OcrCalls \subseteq {1}
    /\ (/\ Step1Runs
        /\ pc = "done"
        /\ out.ocr.status = "ok"
        /\ TrimLen(out.ocr.text) <= 50) =>
            /\ Len(calls) >= 2
            /\ calls[2] = "table"
            /\ (out.table.status = "ok" /\ TrimLen(out.table.text) <= 200) =>
                  calls = << "ocr", "table", "native" >>

\* a bill whose OCR text was too short and whose other texts stayed poor
\* finished without a second OCR
C29_Witness ==
    /\ pc = "done" /\ ~raised
    /\ Step1Runs
    /\ calls = << "ocr", "table", "native" >>
    /\ TrimLen(out.ocr.text) = 50
    /\ TrimLen(Best23) < 100

----------------------------------------------------------------------------
\* A further property of the two report builders.

\* the values of a sequence are all different
NoRepeat(seq) ==
    \A i, j \in DOMAIN seq : i # j => seq[i] # seq[j]

\* the header line that the line i of a report stands under
HeaderOf(report, i) ==
    CHOOSE h \in 1 .. i :
        /\ "match" \notin DOMAIN report[h]
        /\ \A k \in (h + 1) .. i : "match" \in DOMAIN report[k]

\* C21: in every report, the summary report as well as the enhanced-OCR
\* report, no field lists a value twice, however often the value matched in
\* the text.
C21_FieldsDeduplicated ==
    ppc = "done" =>
        \A report \in ret \cup ret2 :
            /\ \A i, j \in DOMAIN report :
                  (/\ i < j
                   /\ "match" \in DOMAIN report[i]
                   /\ "match" \in DOMAIN report[j]
                   /\ HeaderOf(report, i) = HeaderOf(report, j)) =>
                      report[i].match # report[j].match
            /\ \A i \in DOMAIN report :
                  /\ "matches" \in DOMAIN report[i] => NoRepeat(report[i].matches)
                  /\ "periods" \in DOMAIN report[i] => NoRepeat(report[i].periods)

----------------------------------------------------------------------------
\* Failure of the tokenizer during chunking.

----------------------------------------------------------------------------
\* The page loop of the general OCR mode, _extract_pdf_ocr.

\* a document has at most this many pages
MaxPages == 6

\* range(min(doc.page_count, 5))
OcrPageLimit == 5

\* what happens to one page: rendering it to an image raises
\* (page.get_pixmap, pix.tobytes), recognising the image raises (Image.open,
\* pytesseract.image_to_string), the recognised text is blank, or it is not
PageOutcomes == {"render_raises", "ocr_raises", "blank", "text"}

RECURSIVE SeqsUpTo(_, _)
\* the sequences over S of length at most n
SeqsUpTo(S, n) ==
    IF n = 0 THEN {<< >>}
    ELSE LET shorter == SeqsUpTo(S, n - 1)
         IN  shorter \cup {Append(q, x) : q \in {r \in shorter : Len(r) = n - 1}, x \in S}

Min(a, b) == IF a < b THEN a ELSE b

\* f"--- OCR Page {page_num + 1} ---\n{page_text}\n"
OcrFrame(page_num) == [frame |-> "--- OCR Page", page |-> page_num + 1]

\* page.get_pixmap(...) and pix.tobytes("png") stand before the try: what
\* they raise leaves the loop and the function
OnRenderError(text_so_far) == [ppc |-> "raised", text |-> << >>]

\* except Exception as e: print(...); continue
OnOcrError(text_so_far) == [ppc |-> "loop", text |-> text_so_far]

\* doc = fitz.open(file_path) has succeeded and text = ""
InitOcr ==
    /\ use_ocr = TRUE
    /\ ExtractIdle
    /\ ChunkerIdle
    /\ ppc = "loop"
    /\ arg \in SeqsUpTo(PageOutcomes, MaxPages)
    /\ ret = << >>
    /\ ret2 = << >>
    /\ idx = 0

\* one iteration of `for page_num in range(min(doc.page_count, 5))`
OcrPage ==
    /\ ppc = "loop"
    /\ idx < Min(Len(arg), OcrPageLimit)
    /\ LET page == arg[idx + 1]
           after == CASE page = "render_raises" -> OnRenderError(ret)
                      [] page = "ocr_raises" -> OnOcrError(ret)
                      [] page = "blank" -> [ppc |-> "loop", text |-> ret]
                      [] OTHER -> [ppc |-> "loop", text |-> Append(ret, OcrFrame(idx))]
       IN  /\ ppc' = after.ppc
           /\ ret' = after.text
    /\ idx' = idx + 1
    /\ UNCHANGED << evars, cvars, arg, ret2 >>

\* doc.close(); return text
OcrReturn ==
    /\ ppc = "loop"
    /\ idx = Min(Len(arg), OcrPageLimit)
    /\ ppc' = "done"
    /\ UNCHANGED << evars, cvars, arg, ret, ret2, idx >>

NextOcr == OcrPage \/ OcrReturn

SpecOcr == InitOcr /\ [][NextOcr]_vars

RECURSIVE FramesOf(_, _)
\* the frames of the pages among the first n whose recognised text is not
\* blank, in page order
FramesOf(pages, n) ==
    IF n = 0 THEN << >>
    ELSE IF pages[n] = "text"
         THEN Append(FramesOf(pages, n - 1), OcrFrame(n - 1))
         ELSE FramesOf(pages, n - 1)

\* C25: the call is never aborted by one page, it handles at most the first
\* five pages, and the text it returns is the frames, in page order, of
\* those of the first five pages whose recognition gave text, whatever
\* happened to the other pages.
C25_OcrPageIsolation ==
    /\ ppc # "raised"
    /\ idx <= OcrPageLimit
    /\ ppc = "done" => ret = FramesOf(arg, Min(Len(arg), OcrPageLimit))

----------------------------------------------------------------------------
\* The file loop of load_documents.

\* a directory lists at most this many entries
MaxFiles == 3

\* file_path.suffix of the entries of a directory
Suffixes == {".pdf", ".PDF", ".docx", ".doc", ".txt", ".md"}

\* file_path.suffix.lower()
SuffixLower(suffix) == IF suffix = ".PDF" THEN ".pdf" ELSE suffix

\* the if/elif chain on the suffix: the extractor the file is handed to, or
\* "none" when the loop goes on to the next entry
ExtractorFor(suffix) ==
    CASE SuffixLower(suffix) = ".pdf" -> "_extract_pdf"
      [] SuffixLower(suffix) \in {".docx", ".doc"} -> "_extract_docx"
      [] SuffixLower(suffix) = ".txt" -> "_extract_text"
      [] OTHER -> "none"

\* what the extractor does with a file: it raises, it returns "" or None,
\* it returns white space only, or it returns text
FileOutcomes == {"raises", "empty", "blank", "content"}

\* the entries directory_path.glob("**/*") yields: directories (one of them
\* named like a PDF) and files
DirEntries ==
    {[is_file |-> FALSE, suffix |-> ".pdf", outcome |-> "content"]}
        \cup {[is_file |-> TRUE, suffix |-> ".md", outcome |-> "content"]}
        \cup {[is_file |-> TRUE, suffix |-> x, outcome |-> o] :
                  x \in Suffixes \ {".md"}, o \in FileOutcomes}

\* if content and len(content.strip()) > 0
HasContent(content) == content = "content"

\* {'content': content, 'source': str(file_path), 'filename': file_path.name}
LoadedDocument(i, entry) ==
    [source |-> i, suffix |-> entry.suffix, content |-> entry.outcome]

OnFileErrorRaises(docs) == [ppc |-> "raised", documents |-> << >>]

\* except Exception as e: print(...); the loop goes on with the next entry
OnFileError(docs) == [ppc |-> "loop", documents |-> docs]

\* documents = []; directory_path = Path(directory)
InitLoad ==
    /\ use_ocr = TRUE
    /\ ExtractIdle
    /\ ChunkerIdle
    /\ ppc = "loop"
    /\ arg \in SeqsUpTo(DirEntries, MaxFiles)
    /\ ret = << >>
    /\ ret2 = << >>
    /\ idx = 0

\* one iteration of `for file_path in directory_path.glob("**/*")`
LoadFile ==
    /\ ppc = "loop"
    /\ idx < Len(arg)
    /\ LET entry == arg[idx + 1]
           after ==
               IF ~entry.is_file \/ ExtractorFor(entry.suffix) = "none"
               THEN [ppc |-> "loop", documents |-> ret]
               ELSE IF entry.outcome = "raises"
               THEN OnFileError(ret)
               ELSE IF HasContent(entry.outcome)
               THEN [ppc |-> "loop",
                     documents |-> Append(ret, LoadedDocument(idx + 1, entry))]
               ELSE [ppc |-> "loop", documents |-> ret]
       IN  /\ ppc' = after.ppc
           /\ ret' = after.documents
    /\ idx' = idx + 1
    /\ UNCHANGED << evars, cvars, arg, ret2 >>

\* return documents
LoadReturn ==
    /\ ppc = "loop"
    /\ idx = Len(arg)
    /\ ppc' = "done"
    /\ UNCHANGED << evars, cvars, arg, ret, ret2, idx >>

NextLoad == LoadFile \/ LoadReturn

SpecLoad == InitLoad /\ [][NextLoad]_vars

\* the upper-case spelling of an extension
UpperCaseSuffix(x) == IF x = ".pdf" THEN ".PDF" ELSE x

\* the four supported extensions
SupportedExtensions == {".pdf", ".docx", ".doc", ".txt"}

\* the entry is a file with a supported extension (in either case) whose
\* extraction succeeded with a non-blank text
Loadable(entry) ==
    /\ entry.is_file
    /\ \E x \in SupportedExtensions : entry.suffix \in {x, UpperCaseSuffix(x)}
    /\ entry.outcome = "content"

\* C22: load_documents never raises because of a file, it handles every
\* entry of the directory, and the list it returns holds exactly the files
\* with a supported extension whose extraction succeeded with non-blank text.
C22_FileFailureIsolated ==
    /\ ppc # "raised"
    /\ ppc = "done" =>
          /\ idx = Len(arg)
          /\ \A i \in DOMAIN arg :
                Loadable(arg[i]) <=> \E d \in DOMAIN ret : ret[d].source = i
          /\ \A d, e \in DOMAIN ret : ret[d].source = ret[e].source => d = e

\* a file whose extraction raised is followed by a file that was loaded
C22_Witness ==
    /\ ppc = "done"
    /\ \E i, j \in DOMAIN arg :
          /\ i < j
          /\ arg[i].is_file /\ arg[i].outcome = "raises"
          /\ ExtractorFor(arg[i].suffix) # "none"
          /\ \E d \in DOMAIN ret : ret[d].source = j

----------------------------------------------------------------------------
\* The enhanced bill OCR mode: process_utility_bill and _process_page_image.
\* A string of several lines is the sequence of its lines, so that
\* "\n".join is the concatenation of the sequences.

\* a bill has at most this many pages
MaxBillPages == 4

\* a page shows at most this many table cells
MaxCells == 1

\* range(min(doc.page_count, 3))
BillPageLimit == 3

\* a recognised text without any bill information, long enough to be read
ProseText == Text(Filler(FillerLen))

\* a recognised text that states an amount
AmountText == Text(Filler(FillerLen) \o Amount123_45)

\* pytesseract.image_to_string raises
Raises == [raises |-> TRUE, text |-> EmptyText]

\* pytesseract.image_to_string returns the text t
Reads(t) == [raises |-> FALSE, text |-> t]

\* what pytesseract.image_to_string does in an attempt: it raises or it
\* returns a text
AttemptOutcomes == {Raises, Reads(ProseText), Reads(AmountText)}

\* what it does on a table cell: as above, or the text is blank
CellOutcomes == AttemptOutcomes \cup {Reads(EmptyText)}

\* what the table attempt meets: its image processing raises, or it finds
\* cells
TableOutcomes ==
    {[raises |-> TRUE, cells |-> << >>]}
        \cup {[raises |-> FALSE, cells |-> cells] :
                  cells \in SeqsUpTo(CellOutcomes, MaxCells)}

\* no page has been taken up yet
NoPage ==
    [prepare |-> "none", direct |-> Raises, enhanced |-> Raises,
     table |-> [raises |-> TRUE, cells |-> << >>]]

\* the pages of a bill: one that cannot be rendered or opened as an image,
\* and the pages the three attempts are made on
BillPages ==
    {[NoPage EXCEPT !.prepare = "raises"]}
        \cup [prepare : {"ok"}, direct : AttemptOutcomes,
              enhanced : AttemptOutcomes, table : TableOutcomes]

\* f"Page {page_num} - Direct OCR" and its like
SourceOf(page_num, method) == [page |-> page_num, method |-> method]

RECURSIVE JoinLines(_)
\* "\n".join(results)
JoinLines(results) ==
    IF results = << >> THEN << >>
    ELSE Head(results) \o JoinLines(Tail(results))

RECURSIVE JoinParagraphs(_)
\* "\n\n".join(extracted_info)
JoinParagraphs(infos) ==
    IF infos = << >> THEN << >>
    ELSE IF Len(infos) = 1 THEN Head(infos)
    ELSE Head(infos) \o << [line |-> ""] >> \o JoinParagraphs(Tail(infos))

NoInfoMessage ==
    << [line |-> "No readable information could be extracted from this utility bill."] >>

OnAttemptErrorRaises(next, results) == [ppc |-> "raised", results |-> results]

\* except Exception as e: print(...) of an attempt: the next attempt follows
OnAttemptError(next, results) == [ppc |-> next, results |-> results]

\* if info: results.append(info)
AppendIfAny(results, info) ==
    IF info = EmptyText THEN results ELSE Append(results, info)

RECURSIVE TableInfos(_, _)
\* the loop over the contours of _extract_table_regions: the summaries of
\* the cells whose recognition returned a non-blank text with bill
\* information; a cell whose recognition raises is passed over
TableInfos(cells, page_num) ==
    IF cells = << >> THEN {<< >>}
    ELSE LET cell == Head(cells)
             infos == IF cell.raises THEN {EmptyText}
                      ELSE IF strip(cell.text) = EmptyText THEN {EmptyText}
                      ELSE UtilityBillProcessor_extract_bill_info(
                               cell.text, SourceOf(page_num, "Table Cell"))
         IN  {AppendIfAny(<< >>, info) \o rest :
                  info \in infos, rest \in TableInfos(Tail(cells), page_num)}

\* doc = fitz.open(file_path); extracted_info = []
InitBill ==
    /\ use_ocr = TRUE
    /\ ExtractIdle
    /\ ChunkerIdle
    /\ ppc = "loop"
    /\ arg \in [page_count : 0 .. MaxBillPages, page : {NoPage}]
    /\ ret = [extracted_info |-> << >>, results |-> << >>]
    /\ ret2 = << >>
    /\ idx = 0

\* the head of `for page_num in range(min(doc.page_count, 3))`: the page is
\* rendered and _process_page_image opens the image
BillPageStart ==
    /\ ppc = "loop"
    /\ idx < Min(arg.page_count, BillPageLimit)
    /\ \E page \in BillPages :
          /\ arg' = [arg EXCEPT !.page = page]
          /\ ppc' = IF page.prepare = "raises" THEN "raised" ELSE "direct"
    /\ ret' = [ret EXCEPT !.results = << >>]
    /\ UNCHANGED << evars, cvars, ret2, idx >>

\* Method 1: Direct OCR on original image
DirectOcr ==
    /\ ppc = "direct"
    /\ IF arg.page.direct.raises
       THEN LET after == OnAttemptError("enhanced", ret.results)
            IN  /\ ppc' = after.ppc
                /\ ret' = [ret EXCEPT !.results = after.results]
       ELSE /\ ppc' = "enhanced"
            /\ \E info1 \in UtilityBillProcessor_extract_bill_info(
                               arg.page.direct.text, SourceOf(idx + 1, "Direct OCR")) :
                  ret' = [ret EXCEPT !.results = AppendIfAny(@, info1)]
    /\ UNCHANGED << evars, cvars, arg, ret2, idx >>

\* Method 2: Enhanced contrast OCR
EnhancedOcr ==
    /\ ppc = "enhanced"
    /\ IF arg.page.enhanced.raises
       THEN LET after == OnAttemptError("table", ret.results)
            IN  /\ ppc' = after.ppc
                /\ ret' = [ret EXCEPT !.results = after.results]
       ELSE /\ ppc' = "table"
            /\ \E info2 \in UtilityBillProcessor_extract_bill_info(
                               arg.page.enhanced.text, SourceOf(idx + 1, "Enhanced OCR")) :
                  ret' = [ret EXCEPT !.results = AppendIfAny(@, info2)]
    /\ UNCHANGED << evars, cvars, arg, ret2, idx >>

\* Method 3: Table detection and OCR
TableOcr ==
    /\ ppc = "table"
    /\ IF arg.page.table.raises
       THEN LET after == OnAttemptError("joined", ret.results)
            IN  /\ ppc' = after.ppc
                /\ ret' = [ret EXCEPT !.results = after.results]
       ELSE /\ ppc' = "joined"
            /\ \E table_info \in TableInfos(arg.page.table.cells, idx + 1) :
                  ret' = [ret EXCEPT
                             !.results = AppendIfAny(@, JoinLines(table_info))]
    /\ UNCHANGED << evars, cvars, arg, ret2, idx >>

\* return "\n".join(results) if results else "", and in the caller
\* if page_info: extracted_info.append(page_info)
BillPageEnd ==
    /\ ppc = "joined"
    /\ LET page_info == JoinLines(ret.results)
       IN  ret' = [ret EXCEPT !.extracted_info = AppendIfAny(@, page_info)]
    /\ idx' = idx + 1
    /\ ppc' = "loop"
    /\ UNCHANGED << evars, cvars, arg, ret2 >>

\* doc.close() and the return of process_utility_bill
BillReturn ==
    /\ ppc = "loop"
    /\ idx = Min(arg.page_count, BillPageLimit)
    /\ ret2' = IF ret.extracted_info # << >>
               THEN JoinParagraphs(ret.extracted_info)
               ELSE NoInfoMessage
    /\ ppc' = "done"
    /\ UNCHANGED << evars, cvars, arg, ret, idx >>

NextBill ==
    \/ BillPageStart
    \/ DirectOcr
    \/ EnhancedOcr
    \/ TableOcr
    \/ BillPageEnd
    \/ BillReturn

SpecBill == InitBill /\ [][NextBill]_vars

\* the recognised text states something a summary reports
HasBillInfo(read) ==
    /\ ~read.raises
    /\ read.text = AmountText

\* the heading of the summary an attempt contributes to the page result, if
\* it contributes one
ExpectedHeadings(page, page_num) ==
    (IF HasBillInfo(page.direct)
     THEN << SourceOf(page_num, "Direct OCR") >> ELSE << >>)
    \o (IF HasBillInfo(page.enhanced)
        THEN << SourceOf(page_num, "Enhanced OCR") >> ELSE << >>)
    \o (IF ~page.table.raises
        THEN [i \in 1 .. Cardinality({c \in DOMAIN page.table.cells :
                                         HasBillInfo(page.table.cells[c])}) |->
                 SourceOf(page_num, "Table Cell")]
        ELSE << >>)

\* the headings of the summaries in a text, in the order they stand in
HeadingsIn(lines) ==
    LET IsHeading(l) == l.line = "=== "
        headings == SelectSeq(lines, IsHeading)
    IN  [i \in DOMAIN headings |-> headings[i].source]

\* every line of the text is a line of a structured summary
OnlySummaryLines(lines) ==
    \A i \in DOMAIN lines :
        lines[i].line \in {"=== ", "AMOUNTS: ", "DATES: ", "SERVICE PERIOD: "}

\* the three attempts follow each other whatever the one before did
AttemptsFollow ==
    /\ ppc = "direct" => ppc' = "enhanced"
    /\ ppc = "enhanced" => ppc' = "table"
    /\ ppc = "table" => ppc' = "joined"

\* the result of the page that has just been handled
PageResultAsClaimed ==
    ppc = "joined" =>
        LET page_info == JoinLines(ret.results)
        IN  /\ HeadingsIn(page_info) = ExpectedHeadings(arg.page, idx + 1)
            /\ OnlySummaryLines(page_info)

\* C26: at most the first three pages are handled; on a page each of the
\* three attempts runs whether or not the one before failed or came back
\* empty; and the page result is made of the non-empty summaries of the
\* attempts, in attempt order, and of nothing else.
C26_BillAttemptsIndependent ==
    /\ [](idx <= BillPageLimit)
    /\ [][AttemptsFollow]_vars
    /\ []PageResultAsClaimed

\* a page whose direct attempt raised and whose enhanced attempt read prose
\* only got its result from the table attempt
C26_Witness ==
    /\ ppc = "joined"
    /\ arg.page.direct.raises
    /\ arg.page.enhanced = Reads(ProseText)
    /\ Len(ret.results) = 1
    /\ idx = BillPageLimit - 1

----------------------------------------------------------------------------
\* The cleanup of a table cell, _clean_cell_text.  A cell is the sequence of
\* its characters.

\* a cell has at most this many characters
MaxCellLen == 4

\* the characters of the cells: the two letters the cleanup rewrites, another
\* letter, a digit, a blank and a hyphen
CellChars == {"O", "l", "a", "5", " ", "-"}

RECURSIVE SplitWords(_, _, _)
\* text.split(): the maximal runs without white space of s[i..], `word`
\* being the run that is open at i
SplitWords(s, i, word) ==
    IF i > Len(s) THEN (IF word = << >> THEN << >> ELSE << word >>)
    ELSE IF s[i] \in Whitespace
         THEN (IF word = << >> THEN << >> ELSE << word >>)
                  \o SplitWords(s, i + 1, << >>)
         ELSE SplitWords(s, i + 1, Append(word, s[i]))

RECURSIVE JoinWords(_)
\* ' '.join(words)
JoinWords(words) ==
    IF words = << >> THEN << >>
    ELSE IF Len(words) = 1 THEN Head(words)
    ELSE Head(words) \o << " " >> \o JoinWords(Tail(words))

RECURSIVE DigitRunEnd(_, _)
\* \d* read greedily from position i of s: the position after the digits
DigitRunEnd(s, i) ==
    IF i <= Len(s) /\ s[i] \in Digits THEN DigitRunEnd(s, i + 1) ELSE i

\* \b\d*X\d*\b tried at position i of s, X being `letter`: the position
\* after the match, or 0.  Neither \d* can give a digit back: the first is
\* followed by the letter, the second by a word boundary.
MatchLetterInNumberAt(s, i, letter) ==
    LET k == DigitRunEnd(s, i)
        e == DigitRunEnd(s, k + 1)
    IN  IF /\ i <= Len(s)
           /\ WordBoundary(s, i)
           /\ k <= Len(s)
           /\ s[k] = letter
           /\ WordBoundary(s, e)
        THEN e
        ELSE 0

RECURSIVE SubLetterInNumber(_, _, _, _)
\* re.sub(r'\b\d*X\d*\b', lambda m: m.group().replace(X, digit), s) from
\* position i on
SubLetterInNumber(s, i, letter, digit) ==
    IF i > Len(s) THEN << >>
    ELSE LET e == MatchLetterInNumberAt(s, i, letter)
         IN  IF e = 0
             THEN << s[i] >> \o SubLetterInNumber(s, i + 1, letter, digit)
             ELSE [j \in 1 .. e - i |->
                      IF s[i + j - 1] = letter THEN digit ELSE s[i + j - 1]]
                      \o SubLetterInNumber(s, e, letter, digit)

\* any(char.isdigit() for char in text)
AnyDigit(s) == \E i \in DOMAIN s : s[i] \in Digits

_clean_cell_text(cell) ==
    LET joined == JoinWords(SplitWords(cell, 1, << >>))
    IN  IF cell = << >> THEN << >>
        ELSE IF AnyDigit(joined)
        THEN SubLetterInNumber(SubLetterInNumber(joined, 1, "O", "0"), 1, "l", "1")
        ELSE joined

\* a cell of a table is about to be cleaned
InitCell ==
    /\ use_ocr = TRUE
    /\ ExtractIdle
    /\ ChunkerIdle
    /\ ppc = "start"
    /\ arg \in SeqsUpTo(CellChars, MaxCellLen)
    /\ ret = << >>
    /\ ret2 = << >>
    /\ idx = 0

\* self._clean_cell_text(str(cell))
CleanCell ==
    /\ ppc = "start"
    /\ ret' = _clean_cell_text(arg)
    /\ ppc' = "done"
    /\ UNCHANGED << evars, cvars, arg, ret2, idx >>

NextCell == CleanCell

SpecCell == InitCell /\ [][NextCell]_vars

\* C28: the cleanup leaves the tokens of the cell in place, and a token
\* without a digit comes out unchanged whatever the other tokens of the cell
\* hold.
C28_WordsWithoutDigitUnchanged ==
    ppc = "done" =>
        LET before == SplitWords(arg, 1, << >>)
            after == SplitWords(ret, 1, << >>)
        IN  /\ Len(after) = Len(before)
            /\ \A i \in DOMAIN before :
                  ~AnyDigit(before[i]) => after[i] = before[i]

----------------------------------------------------------------------------
\* The character pass, _extract_from_chars.  Coordinates are in hundredths
\* of a point; a line of text is the sequence of its characters.

\* a page has at most this many characters
MaxChars == 3

\* char['top'], the distance of a character from the top of the page: two
\* values that round to the same tenth and one further down the page
CharTops == {100, 104, 200}

\* char['x0']
CharLefts == {1, 2}

\* char['text']
CharTexts == {"a", "b", " "}

PageChars == [top : CharTops, x0 : CharLefts, text : CharTexts]

\* round(char['top'], 1), in tenths; no value of CharTops lies half-way
RoundTenth(top) == (top + 5) \div 10

\* lines.keys()
LineKeys(chars) == {RoundTenth(chars[i].top) : i \in DOMAIN chars}

RECURSIVE SortedReverse(_)
\* sorted(keys, reverse=True): the largest first
SortedReverse(keys) ==
    IF keys = {} THEN << >>
    ELSE LET largest == CHOOSE k \in keys : \A other \in keys : other <= k
         IN  << largest >> \o SortedReverse(keys \ {largest})

\* lines[y]: the characters of the line, in the order they were read
LineChars(chars, y) ==
    LET OnLine(c) == RoundTenth(c.top) = y
    IN  SelectSeq(chars, OnLine)

RECURSIVE InsertByLeft(_, _)
\* c put into the sorted line after the characters that are not to its right
InsertByLeft(line, c) ==
    IF line = << >> THEN << c >>
    ELSE IF Head(line).x0 <= c.x0
         THEN << Head(line) >> \o InsertByLeft(Tail(line), c)
         ELSE << c >> \o line

RECURSIVE SortedByLeft(_)
\* sorted(lines[y], key=lambda c: c['x0']), a stable sort
SortedByLeft(line) ==
    IF line = << >> THEN << >>
    ELSE InsertByLeft(SortedByLeft(SubSeq(line, 1, Len(line) - 1)),
                      line[Len(line)])

RECURSIVE StripChars(_)
\* line_text.strip()
StripChars(line_text) ==
    IF line_text = << >> THEN << >>
    ELSE IF Head(line_text) \in Whitespace THEN StripChars(Tail(line_text))
    ELSE IF line_text[Len(line_text)] \in Whitespace
         THEN StripChars(SubSeq(line_text, 1, Len(line_text) - 1))
         ELSE line_text

\* ''.join(char['text'] for char in line_chars), stripped
LineText(chars, y) ==
    LET line_chars == SortedByLeft(LineChars(chars, y))
    IN  StripChars([i \in DOMAIN line_chars |-> line_chars[i].text])

RECURSIVE TextLines(_, _)
\* the loop over the sorted keys: the lines that are not blank
TextLines(chars, ys) ==
    IF ys = << >> THEN << >>
    ELSE (IF LineText(chars, Head(ys)) = << >> THEN << >>
          ELSE << LineText(chars, Head(ys)) >>)
             \o TextLines(chars, Tail(ys))

\* the lines '\n'.join(text_lines) is made of
_extract_from_chars(chars) ==
    IF chars = << >> THEN << >>
    ELSE TextLines(chars, SortedReverse(LineKeys(chars)))

\* the characters of a page have been read
InitChars ==
    /\ use_ocr = TRUE
    /\ ExtractIdle
    /\ ChunkerIdle
    /\ ppc = "start"
    /\ arg \in SeqsUpTo(PageChars, MaxChars)
    /\ ret = << >>
    /\ ret2 = << >>
    /\ idx = 0

\* char_text = self._extract_from_chars(chars)
ExtractFromChars ==
    /\ ppc = "start"
    /\ ret' = _extract_from_chars(arg)
    /\ ppc' = "done"
    /\ UNCHANGED << evars, cvars, arg, ret2, idx >>

NextChars == ExtractFromChars

SpecChars == InitChars /\ [][NextChars]_vars

RECURSIVE SortedAscending(_)
\* the keys from the top of the page down: the smallest first
SortedAscending(keys) ==
    IF keys = {} THEN << >>
    ELSE LET smallest == CHOOSE k \in keys : \A other \in keys : k <= other
         IN  << smallest >> \o SortedAscending(keys \ {smallest})

\* C27: the output is the non-blank lines of the page from the top down, a
\* line with a smaller top before a line with a larger one, each line being
\* its characters by increasing x0.
C27_LinesTopToBottom ==
    ppc = "done" =>
        /\ ret = TextLines(arg, SortedAscending(LineKeys(arg)))
        /\ \A y \in LineKeys(arg) :
              LET line_chars == SortedByLeft(LineChars(arg, y))
              IN  \A i, j \in DOMAIN line_chars :
                      i < j => line_chars[i].x0 <= line_chars[j].x0

====
